---- MODULE Spec2Model ----
(***************************************************************************)
(* Authentication and follow-request core of the NestJs-Project backend.   *)
(*                                                                         *)
(*   AuthenticationService  src/src/users/users.controller.ts  145-369     *)
(*   ProfileService         src/src/profile/profile.controller.ts 148-330  *)
(*                                                                         *)
(* The database tables the services reach through Prisma are the state.    *)
(* A handler is an async function: it gives the event loop back at every   *)
(* await, and other requests run before it goes on.  Every handler is      *)
(* therefore a chain of steps, one for each database (or file, or upload)  *)
(* operation it awaits, named handler_operation; a step does the           *)
(* operation on the tables as they are by then, together with the          *)
(* computation of the handler that leads to it and follows it.  A call     *)
(* that has more steps to take waits in inflight with what it has read.    *)
(* bcrypt.compare is a step of its own: the handler answers on its        *)
(* result, from the row it read before.  bcrypt.hash reads nothing of the  *)
(* tables and decides nothing, and belongs to the step of the write that   *)
(* follows it.  generateUserTokens awaits nothing; the handler reads the   *)
(* clock and draws its tokens in the step in which the await before them   *)
(* resolves, and the write it then sends carries these values.             *)
(*                                                                         *)
(* Time is counted in minutes.  Passwords, e-mail addresses and the random *)
(* token strings are numbered values; uuIdv4() and nanoid(64) hand out     *)
(* values that never repeat.                                               *)
(*                                                                         *)
(* The rows of users are written by register, changePassword,              *)
(* resetPassword and editProfile, and removed by UsersController.delete    *)
(* (src/src/users/users.controller.ts 115-123).  The controller reaches    *)
(* the table through UsersService, whose body is not part of the sources,  *)
(* and neither is the Prisma schema: delete is modelled from what the      *)
(* controller does with the result and from the specification (an account  *)
(* is hard-deleted by explicit account deletion), and what the foreign     *)
(* keys of the schema do to the rows that refer to a deleted user is left  *)
(* open, table by table.  UsersController.updateUser (92-103) writes rows   *)
(* of users as well, through the same service and with an UpdateUserDTO    *)
(* that is not part of the sources either: it is modelled from the         *)
(* controller and from the fields the specification gives a user.          *)
(*                                                                         *)
(* Two handlers read the clock when they are called, before their first    *)
(* await: refreshTokens and resetPassword put new Date() into the query    *)
(* they send, and the database reads the rows later.  The call is a step   *)
(* of its own (handler_newDate), and so is the upload FileInterceptor      *)
(* writes to disk before editProfile runs (editProfile_diskStorage).       *)
(***************************************************************************)
EXTENDS Integers, Sequences, FiniteSets, Bags, TLC

\* ---------------------------------------------------------------- inputs
\* The e-mail addresses and passwords of the requests, the salts bcrypt draws,
\* and the user ids a request can name (an id beyond the stored users is a
\* user that does not exist).
Emails == {1, 2}
Salts == {1, 2}
UserIds == {1, 2}

\* Password 1 is a short password.  Password 2 is 72 bytes long and password
\* 3 is password 2 with more bytes after it: no DTO and no handler bounds
\* the length of a password.
Passwords == {1, 2, 3}

\* ---------------------------------------------------------------- bounds
MaxUuids == 3
MaxNanoids == 2
MaxTicks == 1
MaxFollowRequests == 2
MaxFiles == 2
MaxInflight == 2

Uuids == 1 .. MaxUuids
Nanoids == 1 .. MaxNanoids
Files == 1 .. MaxFiles

\* ------------------------------------------------------- program constants
\* expiryDate.getDate() + 3 and 3 * 24 * 60 * 60 * 1000 ms: three days.
RefreshTokenDays == 3
HoursPerDay == 24
MinutesPerHour == 60
MinutesPerDay == HoursPerDay * MinutesPerHour
RefreshTtl == RefreshTokenDays * MinutesPerDay
\* expiryDate.getUTCHours() + 1
ResetTtl == MinutesPerHour
\* jwtService.sign({ userId }, { expiresIn: '1h' })
AccessTtl == MinutesPerHour

VARIABLES
    users,          \* prisma.users: sequence of rows, the row's id is its index
    refreshToken,   \* prisma.refreshToken: set of rows
    resetToken,     \* prisma.resetToken: set of rows
    followers,      \* prisma.followers: set of rows
    followRequests, \* prisma.followRequests: set of rows
    nextRequestId,  \* autoincrement of followRequests.id
    nextRefreshTokenId, \* autoincrement of refreshToken.id
    sentMail,       \* calls made to mailService.sendPasswordResetEmail
    uploads,        \* files present in ./uploads/profile_pictures
    now,            \* new Date(), in minutes
    ticks,          \* number of clock steps taken
    uuidCount,      \* values handed out by uuIdv4()
    nanoidCount,    \* values handed out by nanoid(64)
    onDelete,       \* the referential action of the foreign key of each table
                    \*          on users, as far as the run has shown it
    inflight,       \* the calls that wait at an await, with what they have read
    last,           \* the last step taken: the call, the await, the response
    rotated,        \* history: refresh token values a refreshTokens call accepted
    redeemed,       \* history: reset token values a resetPassword call accepted
    issuedAt,       \* history: reset token value -> time forgotPassword made it
    changed,        \* history: user id -> <<old, new>> of the last changePassword
                    \*          since the password was last written otherwise
    overwritten,    \* history: refresh token values a racing refreshTokens call
                    \*          replaced without having looked them up
    accepted,       \* history: Follower edges made by acceptFollowRequest and
                    \*          not unfollowed since
    everPublic      \* history: user id -> the account was public at some moment

vars == <<users, refreshToken, resetToken, followers, followRequests,
          nextRequestId, sentMail, uploads, now, ticks, uuidCount, nanoidCount,
          onDelete, nextRefreshTokenId, inflight, last, rotated, redeemed, issuedAt, changed,
          overwritten, accepted, everPublic>>

authVars == <<users, refreshToken, resetToken, sentMail, uuidCount, nanoidCount>>
followVars == <<followers, followRequests, nextRequestId, uploads>>
clockVars == <<now, ticks>>
historyVars == <<rotated, redeemed, issuedAt, changed>>
followHistory == <<overwritten, accepted, everPublic>>

\* ------------------------------------------------------------- responses
\* A step of the call op(args) at the await named at.  err is "pending" when
\* the call goes on to its next await, "none" when the handler returns, and
\* the kind of the exception when it throws.
Response(op, at, args, err, msg, cause, out) ==
    [op |-> op, at |-> at, args |-> args, err |-> err, msg |-> msg,
     cause |-> cause, out |-> out]

\* The awaited operation has resolved and the handler goes on.
Pending(op, at, args) == Response(op, at, args, "pending", "", "none", <<>>)

\* A handler that returns.
Returned(op, at, args, msg, out) == Response(op, at, args, "none", msg, "none", out)

\* A handler that throws an exception of kind err.
Thrown(op, at, args, err, msg) == Response(op, at, args, err, msg, "none", <<>>)

\* catch (error) { throw new InternalServerErrorException(error) }
Wrapped(op, at, args, cause, msg) ==
    Response(op, at, args, "InternalServerError", msg, cause, <<>>)

\* ------------------------------------------------------------ the awaits
\* A call between two awaits: the handler, its arguments, the await it takes
\* next and the row its last lookup gave it.  inflight is a bag: two calls
\* can be alike.
Call(op, args, at, row) == [op |-> op, args |-> args, at |-> at, row |-> row]

Calls == BagToSet(inflight)

\* A lookup that found nothing (null).
NoRow == [id |-> 0]

\* The handler awaits its next operation: the call is one of the at most
\* MaxInflight calls under way.
Await(call) ==
    /\ BagCardinality(inflight) < MaxInflight
    /\ inflight' = inflight (+) SetToBag({call})

\* The call takes a step and awaits the next one.
Resume(call, next) ==
    inflight' = (inflight (-) SetToBag({call})) (+) SetToBag({next})

\* The call takes its last step.
Finish(call) == inflight' = inflight (-) SetToBag({call})

\* ----------------------------------------------------------------- bcrypt
\* bcrypt reads the first 72 bytes of a password and no more.
First72(p) == IF p = 3 THEN 2 ELSE p

\* Mutant: the password is stored as it was typed.
BcryptHash_Plaintext(p, s) == p

\* bcrypt.hash(password, saltRounds): a salted digest of the first 72 bytes.
\* The digest under salt s is a number above every password, distinct for
\* distinct (first 72 bytes, salt); the salt is read back from the digest, as
\* bcrypt.compare does.
BcryptHash(p, s) == s * (Cardinality(Passwords) + 1) + First72(p)

SaltOf(h) == h \div (Cardinality(Passwords) + 1)

\* Mutant: every password matches every digest.
BcryptCompare_Always(p, h) == TRUE

\* bcrypt.compare(password, digest)
BcryptCompare(p, h) == SaltOf(h) \in Salts /\ BcryptHash(p, SaltOf(h)) = h

\* ------------------------------------------------------------ users table
\* prisma.users.findUnique({ where: { email } }): the row's id, 0 for null.
FindUserByEmail(email) ==
    IF \E i \in DOMAIN users : users[i].email = email
    THEN CHOOSE i \in DOMAIN users : users[i].email = email
    ELSE 0

\* The place of a row that has been deleted: users.id is an autoincrement
\* column and the id of a deleted row is not given out again.
NoUser == [email |-> 0, password |-> 0, is_private |-> FALSE,
           profile_picture |-> ""]

\* The ids of the rows the table holds.
StoredUsers == { i \in DOMAIN users : users[i] # NoUser }

\* prisma.users.findUnique({ where: { id } }): the row's id, 0 for null.
FindUserById(id) == IF id \in StoredUsers THEN id ELSE 0

\* The tables whose rows name a user.
Tables == {"refreshToken", "resetToken", "followers", "followRequests"}

\* What the schema can make of such a column: a foreign key that deletes
\* the rows with the user (onDelete: Cascade), a foreign key that refuses to
\* delete a user who has rows (Restrict, the default of a required relation,
\* and NoAction), or a plain column without a relation.
ReferentialActions == {"Cascade", "Restrict", "None"}

\* The schema is one and the same throughout a run.  The referential action
\* of a table is read at the first operation whose outcome depends on it.
Schema(table) ==
    IF onDelete[table] = "unread" THEN ReferentialActions
    ELSE {onDelete[table]}

\* The rows of a table that name the user id.
RowsOf(table, id) ==
    CASE table = "refreshToken" -> { r \in refreshToken : r.userId = id }
      [] table = "resetToken" -> { r \in resetToken : r.userId = id }
      [] table = "followers" ->
             { r \in followers : r.followerId = id \/ r.followingId = id }
      [] table = "followRequests" ->
             { r \in followRequests : r.requesterId = id \/ r.targetId = id }

\* The schema as a delete of the user id shows it: the referential action
\* of every table that holds rows of the user, and what the run has shown
\* of the other tables.
Schemas(id) ==
    LET Shown(t) == IF RowsOf(t, id) = {} THEN {onDelete[t]} ELSE Schema(t)
    IN  { [refreshToken |-> a, resetToken |-> b, followers |-> c,
           followRequests |-> d] :
              a \in Shown("refreshToken"), b \in Shown("resetToken"),
              c \in Shown("followers"), d \in Shown("followRequests") }

\* The referential actions a write of a row that names the users ids can
\* meet: the outcome depends on the schema when one of them is not stored.
Read(table, ids) ==
    IF \A i \in ids : FindUserById(i) # 0 THEN {onDelete[table]}
    ELSE Schema(table)

\* Every foreign key refuses a row (P2003) that names a user who is not
\* stored.
Refused(action, ids) ==
    action # "None" /\ \E i \in ids : FindUserById(i) = 0

\* ------------------------------------------------------------------- Init
Init ==
    /\ users = <<>>
    /\ refreshToken = {}
    /\ resetToken = {}
    /\ followers = {}
    /\ followRequests = {}
    /\ nextRequestId = 1
    /\ sentMail = {}
    /\ uploads = {}
    /\ now = 0
    /\ ticks = 0
    /\ uuidCount = 0
    /\ nanoidCount = 0
    /\ onDelete = [refreshToken |-> "unread", resetToken |-> "unread",
                   followers |-> "unread", followRequests |-> "unread"]
    /\ nextRefreshTokenId = 1
    /\ inflight = EmptyBag
    /\ last = Returned("init", "", <<>>, "", <<>>)
    /\ rotated = {}
    /\ redeemed = {}
    /\ issuedAt = [t \in Nanoids |-> 0]
    /\ changed = [u \in UserIds |-> <<>>]
    /\ overwritten = {}
    /\ accepted = {}
    /\ everPublic = [u \in UserIds |-> FALSE]

\* --------------------------------------------------------------- register
\* The first await, prisma.users.findUnique by e-mail: a stored e-mail ends
\* the call with the ConflictException.
register_findUnique(email, password) ==
    LET existingUser == FindUserByEmail(email)
        args == <<email, password>>
    IN  /\ IF existingUser # 0
           THEN /\ last' = Thrown("register", "findUnique", args,
                                  "Conflict", "User already exists")
                /\ UNCHANGED inflight
           ELSE /\ Await(Call("register", args, "create", NoRow))
                /\ last' = Pending("register", "findUnique", args)
        /\ UNCHANGED <<authVars, followVars, clockVars, historyVars, followHistory>>
        /\ UNCHANGED <<onDelete, nextRefreshTokenId>>

\* bcrypt.hash and prisma.users.create.  register does not write is_private:
\* the row gets the column's default, a public account.  When another call
\* has stored the e-mail since the lookup, the unique index on users.email
\* refuses the row and the handler throws the error of Prisma (P2002) as it
\* is.  The new row gets the next id of the autoincrement column, as long as
\* that is one of UserIds.
register_create(call, salt) ==
    LET email == call.args[1]
        password == call.args[2]
        hashedPassword == BcryptHash(password, salt)
        newUser == [email |-> email, password |-> hashedPassword,
                    is_private |-> FALSE, profile_picture |-> ""]
    IN  /\ call.op = "register"
        /\ call.at = "create"
        /\ Finish(call)
        /\ IF FindUserByEmail(email) # 0
           THEN /\ last' = Thrown("register", "create", call.args,
                                  "UniqueConstraint",
                                  "Unique constraint failed on the fields: (email)")
                /\ UNCHANGED <<users, everPublic>>
           ELSE /\ Len(users) + 1 \in UserIds
                /\ users' = Append(users, newUser)
                /\ everPublic' = [everPublic EXCEPT ![Len(users) + 1] = TRUE]
                /\ last' = Returned("register", "create", call.args, "",
                                    <<Len(users) + 1, email>>)
        /\ UNCHANGED <<refreshToken, resetToken, sentMail, uuidCount, nanoidCount>>
        /\ UNCHANGED <<followVars, clockVars, historyVars, overwritten, accepted>>
        /\ UNCHANGED <<onDelete, nextRefreshTokenId>>

\* -------------------------------------------------- UsersController.delete
\* DELETE users/:id, for administrators: await usersService.delete(id), a
\* NotFoundException when it gives nothing, and the message otherwise.  The
\* row of the user goes; the rows of the other tables that name the user go
\* with it, stay, or keep the user from being deleted (P2003), as the
\* schema has it for each table.
delete(id) ==
    LET user == FindUserById(id)
        args == <<id>>
    IN  IF user = 0
        THEN /\ last' = Thrown("delete", "delete", args, "NotFound",
                               "User with ID ${id} not found.")
             /\ UNCHANGED <<authVars, followVars, clockVars, historyVars>>
             /\ UNCHANGED <<followHistory, inflight, onDelete, nextRefreshTokenId>>
        ELSE \E schema \in Schemas(id) :
             /\ onDelete' = schema
             /\ IF \E t \in Tables : RowsOf(t, id) # {} /\ schema[t] = "Restrict"
                THEN /\ last' = Thrown("delete", "delete", args,
                                       "ForeignKeyConstraint",
                                       "Foreign key constraint failed")
                     /\ UNCHANGED <<users, refreshToken, resetToken, followers,
                                    followRequests, changed, accepted>>
                ELSE LET Kept(t, rows) == IF schema[t] = "Cascade"
                                          THEN rows \ RowsOf(t, id) ELSE rows
                     IN  /\ users' = [users EXCEPT ![id] = NoUser]
                         /\ refreshToken' = Kept("refreshToken", refreshToken)
                         /\ resetToken' = Kept("resetToken", resetToken)
                         /\ followers' = Kept("followers", followers)
                         /\ followRequests' =
                                Kept("followRequests", followRequests)
                         /\ accepted' = accepted \cap followers'
                         /\ changed' = [changed EXCEPT ![id] = <<>>]
                         /\ last' = Returned("delete", "delete", args,
                                "User with ID ${id} has been deleted successfully.",
                                <<>>)
             /\ UNCHANGED <<sentMail, uuidCount, nanoidCount, nextRequestId>>
             /\ UNCHANGED <<uploads, clockVars, rotated, redeemed, issuedAt>>
             /\ UNCHANGED <<overwritten, everPublic, inflight, nextRefreshTokenId>>

\* ---------------------------------------------- UsersController.updateUser
\* PUT users/:id, for administrators: await usersService.updateUser(id,
\* updateUserDto), a NotFoundException when it gives nothing, and the user
\* otherwise.  The fields of the row an administrator can set are those the
\* specification gives a user: here the e-mail address, the password and
\* the privacy flag, each left out of the request (0, "undefined") or
\* given.  password is the value the service stores for the password of
\* the request.  The unique index on users.email refuses an address another
\* row holds (P2002).
updateUser(id, email, password, is_private) ==
    LET user == FindUserById(id)
        args == <<id, email, password, is_private>>
    IN  /\ IF user = 0
           THEN /\ last' = Thrown("updateUser", "updateUser", args, "NotFound",
                                  "User with ID ${id} not found.")
                /\ UNCHANGED <<users, changed, everPublic>>
           ELSE IF email # 0 /\ \E j \in DOMAIN users :
                                    j # id /\ users[j].email = email
           THEN /\ last' = Thrown("updateUser", "updateUser", args,
                                  "UniqueConstraint",
                                  "Unique constraint failed on the fields: (email)")
                /\ UNCHANGED <<users, changed, everPublic>>
           ELSE /\ users' = [users EXCEPT ![id] =
                       [@ EXCEPT !.email = IF email = 0 THEN @ ELSE email,
                                 !.password = IF password = 0 THEN @ ELSE password,
                                 !.is_private = IF is_private = "undefined"
                                                THEN @ ELSE is_private = "true"]]
                /\ changed' = IF password = 0 THEN changed
                              ELSE [changed EXCEPT ![id] = <<>>]
                /\ everPublic' = [everPublic EXCEPT ![id] =
                                      @ \/ is_private = "false"]
                /\ last' = Returned("updateUser", "updateUser", args, "", <<id>>)
        /\ UNCHANGED <<refreshToken, resetToken, sentMail, uuidCount, nanoidCount>>
        /\ UNCHANGED <<followVars, clockVars, rotated, redeemed, issuedAt>>
        /\ UNCHANGED <<overwritten, accepted, inflight, onDelete, nextRefreshTokenId>>

\* ------------------------------------------------------------------ login
\* generateUserTokens: jwtService.sign({ userId }, { expiresIn: '1h' }), the
\* access token of userId signed at time t.
AccessToken(userId, t) == <<userId, t + AccessTtl>>

\* Mutant: the upsert always creates a row.
Upsert_AlwaysCreates(rows, id, userId, token, expiryDate) ==
    rows \cup {[id |-> id, userId |-> userId,
                token |-> token, expiryDate |-> expiryDate]}

\* prisma.refreshToken.upsert({ where: { userId }, update, create }); id is
\* the id a created row gets.
Upsert(rows, id, userId, token, expiryDate) ==
    IF \E r \in rows : r.userId = userId
    THEN { IF r.userId = userId
           THEN [r EXCEPT !.token = token, !.expiryDate = expiryDate]
           ELSE r : r \in rows }
    ELSE rows \cup {[id |-> id, userId |-> userId,
                     token |-> token, expiryDate |-> expiryDate]}

\* Mutant: an unknown e-mail is reported as such.
LoginMessage_RevealsUnknownEmail(knownEmail) ==
    IF knownEmail THEN "Invalid credentials" ELSE "User not found"

\* The message of both UnauthorizedException throw sites of login.
LoginMessage(knownEmail) == "Invalid credentials"

\* expiryDate.setDate(expiryDate.getDate() + days): the same local time of
\* day, days calendar days later, in the time zone of the server.  That is
\* days * 24 hours later when the offset of the zone from UTC is the same on
\* both dates, and as much less or more as the offset has moved in between:
\* by an hour or two or by half an hour where the clocks change with the
\* season, by any number of minutes where a zone changes its offset, and by
\* a day where a zone crosses the date line.  Which it is depends on the
\* zone and the date of the server: every minute from a day less to a day
\* more.
AddLocalDays(t, days) ==
    (t + (days - 1) * MinutesPerDay) .. (t + (days + 1) * MinutesPerDay)

\* The first await, prisma.users.findUnique by e-mail.
login_findUnique(email, password) ==
    LET user == FindUserByEmail(email)
        args == <<email, password>>
    IN  /\ IF user = 0
           THEN /\ last' = Thrown("login", "findUnique", args,
                                  "Unauthorized", LoginMessage(FALSE))
                /\ UNCHANGED inflight
           ELSE /\ Await(Call("login", args, "compare",
                              [id |-> user, password |-> users[user].password]))
                /\ last' = Pending("login", "findUnique", args)
        /\ UNCHANGED <<authVars, followVars, clockVars, historyVars, followHistory>>
        /\ UNCHANGED <<onDelete, nextRefreshTokenId>>

\* The second await, bcrypt.compare with the password of the row the lookup
\* gave, whatever password the user has by now.  When it matches, the
\* handler makes the tokens and the expiry date, from the clock as it is
\* now, and sends the upsert.
login_compare(call, expiryDate) ==
    LET user == call.row.id
        newRefreshToken == uuidCount + 1
    IN  /\ call.op = "login"
        /\ call.at = "compare"
        /\ IF ~BcryptCompare(call.args[2], call.row.password)
           THEN /\ Finish(call)
                /\ last' = Thrown("login", "compare", call.args,
                                  "Unauthorized", LoginMessage(TRUE))
                /\ UNCHANGED uuidCount
           ELSE /\ expiryDate \in AddLocalDays(now, RefreshTokenDays)
                /\ uuidCount < MaxUuids
                /\ uuidCount' = uuidCount + 1
                /\ Resume(call, Call("login", call.args, "upsert",
                              [id |-> user,
                               accessToken |-> AccessToken(user, now),
                               refreshToken |-> newRefreshToken,
                               expiryDate |-> expiryDate]))
                /\ last' = Pending("login", "compare", call.args)
        /\ UNCHANGED <<users, refreshToken, resetToken, sentMail, nanoidCount>>
        /\ UNCHANGED <<followVars, clockVars, historyVars, followHistory>>
        /\ UNCHANGED <<onDelete, nextRefreshTokenId>>

\* The last await, prisma.refreshToken.upsert of the token and the expiry
\* date the handler has made.  When the user has been deleted since the
\* lookup and has no row, a foreign key refuses the new row and the handler
\* throws the error of Prisma (P2003) as it is.
login_upsert(call) ==
    LET user == call.row.id
        hasRow == \E r \in refreshToken : r.userId = user
    IN  /\ call.op = "login"
        /\ call.at = "upsert"
        /\ Finish(call)
        /\ \E action \in IF hasRow THEN {onDelete["refreshToken"]}
                          ELSE Read("refreshToken", {user}) :
               /\ onDelete' = [onDelete EXCEPT !["refreshToken"] = action]
               /\ IF ~hasRow /\ Refused(action, {user})
                  THEN /\ last' = Thrown("login", "upsert", call.args,
                                         "ForeignKeyConstraint",
                                         "Foreign key constraint failed")
                       /\ UNCHANGED <<refreshToken, nextRefreshTokenId>>
                  ELSE /\ refreshToken' =
                              Upsert(refreshToken, nextRefreshTokenId, user,
                                     call.row.refreshToken, call.row.expiryDate)
                       /\ nextRefreshTokenId' =
                              IF hasRow THEN nextRefreshTokenId
                              ELSE nextRefreshTokenId + 1
                       /\ last' = Returned("login", "upsert", call.args, "",
                                           <<user, call.row.accessToken,
                                             call.row.refreshToken>>)
        /\ UNCHANGED <<users, resetToken, sentMail, uuidCount, nanoidCount>>
        /\ UNCHANGED <<followVars, clockVars, historyVars, followHistory>>

\* ---------------------------------------------------------- refreshTokens
\* Mutant: the tokens of a user whose password has been changed or reset are
\* not found.
FetchRefreshToken_PasswordUnchanged(token, gte) ==
    { r \in refreshToken :
        /\ r.token = token
        /\ r.expiryDate >= gte
        /\ BcryptCompare(1, users[r.userId].password) }

\* Mutant: the lookup leaves the expiry out.
FetchRefreshToken_IgnoresExpiry(token, gte) ==
    { r \in refreshToken : r.token = token }

\* prisma.refreshToken.findFirst({ where: { token, expiryDate: { gte } } }):
\* the rows as they are when the database reads them, and the bound the
\* handler has put into the query.
FetchRefreshToken(token, gte) ==
    { r \in refreshToken : r.token = token /\ r.expiryDate >= gte }

\* Mutant: the update inserts a row and leaves the one it names as it was.
RotateRefreshToken_Appends(rows, id, token, expiryDate) ==
    rows \cup { [r EXCEPT !.id = Cardinality(rows) + 1, !.token = token,
                           !.expiryDate = expiryDate] : r \in { q \in rows : q.id = id } }

\* Mutant: the update extends the expiry and keeps the token value.
RotateRefreshToken_KeepsToken(rows, id, token, expiryDate) ==
    { IF r.id = id THEN [r EXCEPT !.expiryDate = expiryDate] ELSE r : r \in rows }

\* prisma.refreshToken.update({ where: { id }, data: { token, expiryDate } })
RotateRefreshToken(rows, id, token, expiryDate) ==
    { IF r.id = id
      THEN [r EXCEPT !.token = token, !.expiryDate = expiryDate]
      ELSE r : r \in rows }

\* The handler is called: it builds the query of its first await, whose
\* bound is new Date(), the clock as it is at this moment, and sends it.
refreshTokens_newDate(token) ==
    LET args == <<token>>
    IN  /\ Await(Call("refreshTokens", args, "findFirst",
                      [id |-> 0, gte |-> now]))
        /\ last' = Pending("refreshTokens", "newDate", args)
        /\ UNCHANGED <<authVars, followVars, clockVars, historyVars>>
        /\ UNCHANGED <<followHistory, onDelete, nextRefreshTokenId>>

\* The first await, prisma.refreshToken.findFirst: the database reads the
\* rows as they are now and compares their expiry with the bound of the
\* query.  Without a valid row the call ends here; with one, the handler
\* makes the tokens and the expiry date (Date.now() + 3 * 24 * 60 * 60 *
\* 1000), from the clock as it is now, and sends the update.
refreshTokens_findFirst(call) ==
    LET found == FetchRefreshToken(call.args[1], call.row.gte)
        newRefreshToken == uuidCount + 1
    IN  /\ call.op = "refreshTokens"
        /\ call.at = "findFirst"
        /\ IF found = {}
           THEN /\ Finish(call)
                /\ last' = Thrown("refreshTokens", "findFirst", call.args,
                                  "Unauthorized", "Invalid or expired refresh token")
                /\ UNCHANGED uuidCount
           ELSE \E fetchRefreshToken \in found :
                /\ uuidCount < MaxUuids
                /\ uuidCount' = uuidCount + 1
                /\ Resume(call, Call("refreshTokens", call.args, "update",
                              [id |-> fetchRefreshToken.id,
                               userId |-> fetchRefreshToken.userId,
                               accessToken |->
                                   AccessToken(fetchRefreshToken.userId, now),
                               refreshToken |-> newRefreshToken,
                               expiryDate |-> now + RefreshTtl]))
                /\ last' = Pending("refreshTokens", "findFirst", call.args)
        /\ UNCHANGED <<users, refreshToken, resetToken, sentMail, nanoidCount>>
        /\ UNCHANGED <<followVars, clockVars, historyVars, followHistory>>
        /\ UNCHANGED <<onDelete, nextRefreshTokenId>>

\* The last await, prisma.refreshToken.update of the row found, whatever it
\* holds by now, with the token and the expiry date the handler has made.
\* When the row has gone with its user since the lookup, the handler throws
\* the error of Prisma (P2025) as it is.
\* When another call that looked up the same token has written in between,
\* the token the row holds by now is overwritten without having been used.
refreshTokens_update(call) ==
    LET fetchRefreshToken == call.row
        stale == IF call.args[1] \in rotated
                 THEN { r.token : r \in { q \in refreshToken :
                                            q.id = fetchRefreshToken.id } }
                 ELSE {}
    IN  /\ call.op = "refreshTokens"
        /\ call.at = "update"
        /\ Finish(call)
        /\ IF \E r \in refreshToken : r.id = fetchRefreshToken.id
           THEN /\ refreshToken' =
                       RotateRefreshToken(refreshToken, fetchRefreshToken.id,
                               call.row.refreshToken, call.row.expiryDate)
                /\ rotated' = rotated \cup {call.args[1]}
                /\ overwritten' = overwritten \cup stale
                /\ last' = Returned("refreshTokens", "update", call.args, "",
                                    <<fetchRefreshToken.userId,
                                      call.row.accessToken,
                                      call.row.refreshToken>>)
           ELSE /\ last' = Thrown("refreshTokens", "update", call.args,
                                  "RecordNotFound",
                                  "Record to update not found.")
                /\ UNCHANGED <<refreshToken, rotated, overwritten>>
        /\ UNCHANGED <<users, resetToken, sentMail, uuidCount, nanoidCount>>
        /\ UNCHANGED <<followVars, clockVars, redeemed, issuedAt, changed>>
        /\ UNCHANGED <<accepted, everPublic>>
        /\ UNCHANGED <<onDelete, nextRefreshTokenId>>

\* --------------------------------------------------------- changePassword
\* Mutant: the update writes nothing.
SetPassword_NoWrite(rows, id, hash) == rows

\* prisma.users.update({ where: { id }, data: { password } })
SetPassword(rows, id, hash) == [rows EXCEPT ![id].password = hash]

\* The first await, prisma.users.findUnique by id.
changePassword_findUnique(userId, oldPassword, newPassword) ==
    LET user == FindUserById(userId)
        args == <<userId, oldPassword, newPassword>>
    IN  /\ IF user = 0
           THEN /\ last' = Thrown("changePassword", "findUnique", args,
                                  "NotFound", "User not found")
                /\ UNCHANGED inflight
           ELSE /\ Await(Call("changePassword", args, "compare",
                              [id |-> user, password |-> users[user].password]))
                /\ last' = Pending("changePassword", "findUnique", args)
        /\ UNCHANGED <<authVars, followVars, clockVars, historyVars, followHistory>>
        /\ UNCHANGED <<onDelete, nextRefreshTokenId>>

\* The second await, bcrypt.compare of the old password with the password of
\* the row the lookup gave, whatever password the user has by now.
changePassword_compare(call) ==
    /\ call.op = "changePassword"
    /\ call.at = "compare"
    /\ IF ~BcryptCompare(call.args[2], call.row.password)
       THEN /\ Finish(call)
            /\ last' = Thrown("changePassword", "compare", call.args,
                              "Unauthorized", "Wrong credentials")
       ELSE /\ Resume(call, Call("changePassword", call.args, "update",
                                 [id |-> call.row.id]))
            /\ last' = Pending("changePassword", "compare", call.args)
    /\ UNCHANGED <<authVars, followVars, clockVars, historyVars, followHistory>>
    /\ UNCHANGED <<onDelete, nextRefreshTokenId>>

\* bcrypt.hash and prisma.users.update of the row of userId, whatever
\* password it holds by now.  When the user has been deleted since the
\* lookup, the handler throws the error of Prisma (P2025) as it is.
changePassword_update(call, salt) ==
    LET userId == call.args[1]
        oldPassword == call.args[2]
        newPassword == call.args[3]
    IN  /\ call.op = "changePassword"
        /\ call.at = "update"
        /\ Finish(call)
        /\ IF FindUserById(userId) # 0
           THEN /\ users' = SetPassword(users, userId,
                                        BcryptHash(newPassword, salt))
                /\ changed' = [changed EXCEPT
                                   ![userId] = <<oldPassword, newPassword>>]
                /\ last' = Returned("changePassword", "update", call.args,
                                    "Password changed", <<>>)
           ELSE /\ last' = Thrown("changePassword", "update", call.args,
                                  "RecordNotFound",
                                  "Record to update not found.")
                /\ UNCHANGED <<users, changed>>
        /\ UNCHANGED <<refreshToken, resetToken, sentMail, uuidCount, nanoidCount>>
        /\ UNCHANGED <<followVars, clockVars, rotated, redeemed, issuedAt>>
        /\ UNCHANGED followHistory
        /\ UNCHANGED <<onDelete, nextRefreshTokenId>>

\* --------------------------------------------------------- forgotPassword
\* Mutant: an unknown e-mail is reported as such.
ForgotMessage_RevealsUnknownEmail(knownEmail) ==
    IF knownEmail THEN "If user exists, they will receive an email"
    ELSE "User not found"

\* The message forgotPassword returns.
ForgotMessage(knownEmail) == "If user exists, they will receive an email"

\* expiryDate.setUTCHours(expiryDate.getUTCHours() + 1)
ResetExpiry(t) == t + ResetTtl

\* The first await, prisma.users.findUnique by e-mail.  For an unknown
\* e-mail the handler returns its message here; for a known one it makes the
\* expiry date, from the clock as it is now, and the token, and sends the
\* create.
forgotPassword_findUnique(email) ==
    LET user == FindUserByEmail(email)
        args == <<email>>
        newResetToken == nanoidCount + 1
    IN  /\ IF user = 0
           THEN /\ last' = Returned("forgotPassword", "findUnique", args,
                                    ForgotMessage(FALSE), <<>>)
                /\ UNCHANGED <<inflight, nanoidCount, issuedAt>>
           ELSE /\ nanoidCount < MaxNanoids
                /\ nanoidCount' = nanoidCount + 1
                /\ issuedAt' = [issuedAt EXCEPT ![newResetToken] = now]
                /\ Await(Call("forgotPassword", args, "create",
                              [id |-> user, token |-> newResetToken,
                               expiryDate |-> ResetExpiry(now)]))
                /\ last' = Pending("forgotPassword", "findUnique", args)
        /\ UNCHANGED <<users, refreshToken, resetToken, sentMail, uuidCount>>
        /\ UNCHANGED <<followVars, clockVars, rotated, redeemed, changed>>
        /\ UNCHANGED followHistory
        /\ UNCHANGED <<onDelete, nextRefreshTokenId>>

\* The last await, prisma.resetToken.create, and then the call of the mail
\* service, which the handler does not await.  When the user has been
\* deleted since the lookup, a foreign key refuses the row and the handler
\* throws the error of Prisma (P2003) as it is, before it calls the mail
\* service.
forgotPassword_create(call) ==
    LET email == call.args[1]
    IN  /\ call.op = "forgotPassword"
        /\ call.at = "create"
        /\ Finish(call)
        /\ \E action \in Read("resetToken", {call.row.id}) :
               /\ onDelete' = [onDelete EXCEPT !["resetToken"] = action]
               /\ IF Refused(action, {call.row.id})
                  THEN /\ last' = Thrown("forgotPassword", "create", call.args,
                                         "ForeignKeyConstraint",
                                         "Foreign key constraint failed")
                       /\ UNCHANGED <<resetToken, sentMail>>
                  ELSE /\ resetToken' = resetToken \cup
                              {[token |-> call.row.token, userId |-> call.row.id,
                                expiryDate |-> call.row.expiryDate]}
                       /\ sentMail' = sentMail \cup {<<email, call.row.token>>}
                       /\ last' = Returned("forgotPassword", "create", call.args,
                                           ForgotMessage(TRUE), <<>>)
        /\ UNCHANGED <<users, refreshToken, uuidCount, nanoidCount>>
        /\ UNCHANGED <<followVars, clockVars, historyVars, followHistory>>
        /\ UNCHANGED nextRefreshTokenId

\* ---------------------------------------------------------- resetPassword
\* Mutant: a token that has reset a password once is not found again.
FetchResetToken_SingleUse(token, gte) ==
    { r \in resetToken :
        r.token = token /\ r.expiryDate >= gte /\ token \notin redeemed }

\* Mutant: the lookup leaves the expiry out.
FetchResetToken_IgnoresExpiry(token, gte) ==
    { r \in resetToken : r.token = token }

\* prisma.resetToken.findFirst({ where: { token, expiryDate: { gte } } }):
\* the rows as they are when the database reads them, and the bound the
\* handler has put into the query.
FetchResetToken(token, gte) ==
    { r \in resetToken : r.token = token /\ r.expiryDate >= gte }

\* The handler is called: it builds the query of its first await, whose
\* bound is new Date(), the clock as it is at this moment, and sends it.
resetPassword_newDate(resetTokenValue, newPassword) ==
    LET args == <<resetTokenValue, newPassword>>
    IN  /\ Await(Call("resetPassword", args, "findFirst",
                      [id |-> 0, gte |-> now]))
        /\ last' = Pending("resetPassword", "newDate", args)
        /\ UNCHANGED <<authVars, followVars, clockVars, historyVars>>
        /\ UNCHANGED <<followHistory, onDelete, nextRefreshTokenId>>

\* The first await, prisma.resetToken.findFirst: the database reads the
\* rows as they are now and compares their expiry with the bound of the
\* query.  Without a valid row the call ends here.
resetPassword_findFirst(call) ==
    LET found == FetchResetToken(call.args[1], call.row.gte)
    IN  /\ call.op = "resetPassword"
        /\ call.at = "findFirst"
        /\ IF found = {}
           THEN /\ Finish(call)
                /\ last' = Thrown("resetPassword", "findFirst", call.args,
                                  "Unauthorized", "Invalid link")
           ELSE \E token \in found :
                /\ Resume(call, Call("resetPassword", call.args, "findUnique",
                              [id |-> 0, userId |-> token.userId]))
                /\ last' = Pending("resetPassword", "findFirst", call.args)
        /\ UNCHANGED <<authVars, followVars, clockVars, historyVars, followHistory>>
        /\ UNCHANGED <<onDelete, nextRefreshTokenId>>

\* The second await, prisma.users.findUnique by the userId of the token.
resetPassword_findUnique(call) ==
    LET user == FindUserById(call.row.userId)
    IN  /\ call.op = "resetPassword"
        /\ call.at = "findUnique"
        /\ IF user = 0
           THEN /\ Finish(call)
                /\ last' = Thrown("resetPassword", "findUnique", call.args,
                                  "NotFound", "User not found")
           ELSE /\ Resume(call, Call("resetPassword", call.args, "update",
                                     [id |-> user]))
                /\ last' = Pending("resetPassword", "findUnique", call.args)
        /\ UNCHANGED <<authVars, followVars, clockVars, historyVars, followHistory>>
        /\ UNCHANGED <<onDelete, nextRefreshTokenId>>

\* bcrypt.hash and prisma.users.update of the user's row.  The handler
\* returns its message and nothing else.  When the user has been deleted
\* since the lookup, it throws the error of Prisma (P2025) as it is.
resetPassword_update(call, salt) ==
    LET user == call.row.id
        newPassword == call.args[2]
    IN  /\ call.op = "resetPassword"
        /\ call.at = "update"
        /\ Finish(call)
        /\ IF FindUserById(user) # 0
           THEN /\ users' = SetPassword(users, user,
                                        BcryptHash(newPassword, salt))
                /\ redeemed' = redeemed \cup {call.args[1]}
                /\ changed' = [changed EXCEPT ![user] = <<>>]
                /\ last' = Returned("resetPassword", "update", call.args,
                                    "Password reset successfully.", <<>>)
           ELSE /\ last' = Thrown("resetPassword", "update", call.args,
                                  "RecordNotFound",
                                  "Record to update not found.")
                /\ UNCHANGED <<users, redeemed, changed>>
        /\ UNCHANGED <<refreshToken, resetToken, sentMail, uuidCount, nanoidCount>>
        /\ UNCHANGED <<followVars, clockVars, rotated, issuedAt>>
        /\ UNCHANGED followHistory
        /\ UNCHANGED <<onDelete, nextRefreshTokenId>>

\* ------------------------------------------------------------------ clock
\* Time passes between the steps, d minutes at a time.
Tick(d) ==
    /\ ticks < MaxTicks
    /\ ticks' = ticks + 1
    /\ now' = now + d
    /\ last' = Returned("tick", "", <<d>>, "", <<>>)
    /\ UNCHANGED <<authVars, followVars, historyVars, followHistory, inflight>>
    /\ UNCHANGED <<onDelete, nextRefreshTokenId>>

\* ============================================================ ProfileService

\* ------------------------------------------------------------ editProfile
\* EditProfileDTO.is_private as the request carries it, <<typeof, text>>.
\* The DTO puts @IsOptional() on the field and nothing else, so every value a
\* body can hold reaches the handler: the field left out, null, a boolean or
\* a number (a JSON body), a string (a multipart form field, any text), an
\* array (a field sent more than once) or an object.
IsPrivateInputs ==
    { <<"undefined", "">>, <<"null", "">>,
      <<"boolean", "true">>, <<"boolean", "false">>,
      <<"number", "0">>, <<"number", "1">>,
      <<"string", "true">>, <<"string", "false">>, <<"string", "TRUE">>,
      <<"string", "">>,
      <<"array", "false">>, <<"object", "">> }

\* !!v of JavaScript: undefined, null, false, 0, NaN and the empty string are
\* false, and every other value is true, the arrays and the objects included.
Truthy(v) ==
    CASE v[1] \in {"undefined", "null"} -> FALSE
      [] v[1] = "boolean" -> v[2] = "true"
      [] v[1] = "number" -> v[2] \notin {"0", "NaN"}
      [] v[1] = "string" -> v[2] # ""
      [] OTHER -> TRUE

\* typeof is_private === 'string' ? is_private === 'true' : !!is_private
convertIsPrivate(is_private) ==
    IF is_private[1] = "string"
    THEN is_private[2] = "true"
    ELSE Truthy(is_private)

\* The unique index on users.email refuses the update.
EmailTaken(userId, email) ==
    \E j \in DOMAIN users : j # userId /\ users[j].email = email

\* prisma.users.update({ where: { id }, data: { ..., email, profile_picture,
\* is_private } }): a field left undefined (email 0) is not written.
UpdateUser(rows, userId, email, file_url, private) ==
    [rows EXCEPT ![userId] =
        [@ EXCEPT !.email = IF email = 0 THEN @ ELSE email,
                  !.profile_picture = file_url,
                  !.is_private = private]]

\* await fs.promises.unlink(file.path), in the try block after the upload
Unlink(files, path) == files \ {path}

\* Mutant: the catch block leaves the staged file where it is.
UnlinkIfExists_Skips(files, path) == files

\* if (file.path && fs.existsSync(file.path)) fs.unlinkSync(file.path), in
\* the catch block
UnlinkIfExists(files, path) == files \ {path}

\* The file names the calls under way hold: diskStorage names every upload
\* after the time and a random number, and no two calls get the same name.
StagedFiles ==
    { call.args[4] : call \in { c \in Calls : c.op = "editProfile" } }

\* The request arrives: before the handler runs, FileInterceptor has
\* multer's diskStorage write the upload to a path of its own.  file is that
\* path, 0 when the request carries no file.  The handler then converts the
\* privacy flag and sends its first query.
editProfile_diskStorage(userId, email, is_private, file) ==
    LET args == <<userId, email, is_private, file>>
    IN  /\ file # 0 => file \notin uploads \cup StagedFiles
        /\ uploads' = IF file = 0 THEN uploads ELSE uploads \cup {file}
        /\ Await(Call("editProfile", args, "findUnique", NoRow))
        /\ last' = Pending("editProfile", "diskStorage", args)
        /\ UNCHANGED <<authVars, followers, followRequests, nextRequestId>>
        /\ UNCHANGED <<clockVars, historyVars, followHistory>>
        /\ UNCHANGED <<onDelete, nextRefreshTokenId>>

\* The first await, prisma.users.findUnique by id, on the table as it is by
\* then.  Without a file, file.path throws a TypeError in the try block (or
\* the NotFoundException is caught) and again in the catch block, which the
\* handler throws as it is.
editProfile_findUnique(call) ==
    LET user == FindUserById(call.args[1])
        file == call.args[4]
    IN  /\ call.op = "editProfile"
        /\ call.at = "findUnique"
        /\ IF file = 0
           THEN /\ Finish(call)
                /\ last' = Thrown("editProfile", "findUnique", call.args,
                                  "TypeError",
                                  "Cannot read properties of undefined")
                /\ UNCHANGED uploads
           ELSE IF user = 0
           THEN /\ Finish(call)
                /\ last' = Wrapped("editProfile", "findUnique", call.args,
                                   "NotFound", "Error in edit profile")
                /\ uploads' = UnlinkIfExists(uploads, file)
           ELSE /\ Resume(call, [call EXCEPT !.at = "upload"])
                /\ last' = Pending("editProfile", "findUnique", call.args)
                /\ UNCHANGED uploads
        /\ UNCHANGED <<authVars, followers, followRequests, nextRequestId>>
        /\ UNCHANGED <<clockVars, historyVars, followHistory>>
        /\ UNCHANGED <<onDelete, nextRefreshTokenId>>

\* await uploadToCloudinary(file.path): uploadOk is whether it resolves.
editProfile_upload(call, uploadOk) ==
    LET file == call.args[4]
    IN  /\ call.op = "editProfile"
        /\ call.at = "upload"
        /\ IF uploadOk
           THEN /\ Resume(call, [call EXCEPT !.at = "unlink"])
                /\ last' = Pending("editProfile", "upload", call.args)
                /\ UNCHANGED uploads
           ELSE /\ Finish(call)
                /\ last' = Wrapped("editProfile", "upload", call.args,
                                   "UploadError", "Error in edit profile")
                /\ uploads' = UnlinkIfExists(uploads, file)
        /\ UNCHANGED <<authVars, followers, followRequests, nextRequestId>>
        /\ UNCHANGED <<clockVars, historyVars, followHistory>>
        /\ UNCHANGED <<onDelete, nextRefreshTokenId>>

\* await fs.promises.unlink(file.path): the file of the call is its own, and
\* it is there.
editProfile_unlink(call) ==
    LET file == call.args[4]
    IN  /\ call.op = "editProfile"
        /\ call.at = "unlink"
        /\ IF file \in uploads
           THEN /\ Resume(call, [call EXCEPT !.at = "update"])
                /\ last' = Pending("editProfile", "unlink", call.args)
                /\ uploads' = Unlink(uploads, file)
           ELSE /\ Finish(call)
                /\ last' = Wrapped("editProfile", "unlink", call.args,
                                   "ENOENT", "Error in edit profile")
                /\ UNCHANGED uploads
        /\ UNCHANGED <<authVars, followers, followRequests, nextRequestId>>
        /\ UNCHANGED <<clockVars, historyVars, followHistory>>
        /\ UNCHANGED <<onDelete, nextRefreshTokenId>>

\* await prisma.users.update, on the table as it is by then: the row of a
\* user who has been deleted since the lookup is not found (P2025).
editProfile_update(call) ==
    LET userId == call.args[1]
        email == call.args[2]
        is_private == call.args[3]
        file == call.args[4]
    IN  /\ call.op = "editProfile"
        /\ call.at = "update"
        /\ Finish(call)
        /\ IF FindUserById(userId) = 0
           THEN /\ last' = Wrapped("editProfile", "update", call.args,
                                   "RecordNotFound", "Error in edit profile")
                /\ uploads' = UnlinkIfExists(uploads, file)
                /\ UNCHANGED <<users, everPublic>>
           ELSE IF email # 0 /\ EmailTaken(userId, email)
           THEN /\ last' = Wrapped("editProfile", "update", call.args,
                                   "UniqueConstraint", "Error in edit profile")
                /\ uploads' = UnlinkIfExists(uploads, file)
                /\ UNCHANGED <<users, everPublic>>
           ELSE /\ users' = UpdateUser(users, userId, email, "secure_url",
                                       convertIsPrivate(is_private))
                /\ everPublic' = [everPublic EXCEPT ![userId] =
                                      @ \/ ~convertIsPrivate(is_private)]
                /\ UNCHANGED uploads
                /\ last' = Returned("editProfile", "update", call.args, "",
                                    <<userId>>)
        /\ UNCHANGED <<refreshToken, resetToken, sentMail, uuidCount, nanoidCount>>
        /\ UNCHANGED <<followers, followRequests, nextRequestId>>
        /\ UNCHANGED <<clockVars, historyVars, overwritten, accepted>>
        /\ UNCHANGED <<onDelete, nextRefreshTokenId>>

\* -------------------------------------------------------- requestToFollow
\* Mutant: the edge points from the target to the requester.
Edge_Swapped(userId, targetId) ==
    [followerId |-> targetId, followingId |-> userId]

\* data: { followerId: userId, followingId: targetId }
Edge(userId, targetId) == [followerId |-> userId, followingId |-> targetId]

\* prisma.followRequests.findUnique({ where: { requesterId_targetId } })
FindFollowRequest(userId, targetId) ==
    { r \in followRequests : r.requesterId = userId /\ r.targetId = targetId }

\* Mutant: the privacy test is the wrong way round.
IsPublic_Inverted(targetUser) == users[targetUser].is_private

\* Mutant: every target is followed directly.
IsPublic_Always(targetUser) == TRUE

\* if (!targetUser.is_private), on the row the lookup has just read
IsPublic(targetUser) == ~users[targetUser].is_private

\* The first await, prisma.users.findUnique of the target.  The privacy of
\* the target as this lookup reads it decides which table the call goes on
\* with.
requestToFollow_findUnique(targetId, userId) ==
    LET targetUser == FindUserById(targetId)
        args == <<targetId, userId>>
    IN  /\ IF targetUser = 0
           THEN /\ last' = Wrapped("requestToFollow", "findUnique", args,
                                   "NotFound", "User not found")
                /\ UNCHANGED inflight
           ELSE /\ Await(Call("requestToFollow", args,
                              IF IsPublic(targetUser)
                              THEN "findFollow" ELSE "findRequest", NoRow))
                /\ last' = Pending("requestToFollow", "findUnique", args)
        /\ UNCHANGED <<authVars, followVars, clockVars, historyVars, followHistory>>
        /\ UNCHANGED <<onDelete, nextRefreshTokenId>>

\* The public target: prisma.followers.findUnique of the edge.
requestToFollow_findFollow(call) ==
    LET targetId == call.args[1]
        userId == call.args[2]
    IN  /\ call.op = "requestToFollow"
        /\ call.at = "findFollow"
        /\ IF Edge(userId, targetId) \in followers
           THEN /\ Finish(call)
                /\ last' = Wrapped("requestToFollow", "findFollow", call.args,
                                   "BadRequest",
                                   "You are already following this user.")
           ELSE /\ Resume(call, [call EXCEPT !.at = "createFollow"])
                /\ last' = Pending("requestToFollow", "findFollow", call.args)
        /\ UNCHANGED <<authVars, followVars, clockVars, historyVars, followHistory>>
        /\ UNCHANGED <<onDelete, nextRefreshTokenId>>

\* prisma.followers.create: the unique index on (followerId, followingId)
\* refuses the edge that another call has stored since the lookup, and a
\* foreign key the edge of a user who has been deleted (P2003).
requestToFollow_createFollow(call) ==
    LET targetId == call.args[1]
        userId == call.args[2]
    IN  /\ call.op = "requestToFollow"
        /\ call.at = "createFollow"
        /\ Finish(call)
        /\ IF Edge(userId, targetId) \in followers
           THEN /\ last' = Wrapped("requestToFollow", "createFollow", call.args,
                                   "UniqueConstraint", "")
                /\ UNCHANGED <<followers, onDelete>>
           ELSE \E action \in Read("followers", {userId, targetId}) :
                /\ onDelete' = [onDelete EXCEPT !["followers"] = action]
                /\ IF Refused(action, {userId, targetId})
                   THEN /\ last' = Wrapped("requestToFollow", "createFollow",
                                           call.args, "ForeignKeyConstraint", "")
                        /\ UNCHANGED followers
                   ELSE /\ followers' = followers \cup {Edge(userId, targetId)}
                        /\ last' = Returned("requestToFollow", "createFollow",
                                            call.args,
                                            "You are now following this user.",
                                            <<>>)
        /\ UNCHANGED <<authVars, followRequests, nextRequestId, uploads>>
        /\ UNCHANGED <<clockVars, historyVars, followHistory>>
        /\ UNCHANGED nextRefreshTokenId

\* The private target: prisma.followRequests.findUnique of the pair.
requestToFollow_findRequest(call) ==
    LET targetId == call.args[1]
        userId == call.args[2]
    IN  /\ call.op = "requestToFollow"
        /\ call.at = "findRequest"
        /\ IF FindFollowRequest(userId, targetId) # {}
           THEN /\ Finish(call)
                /\ last' = Wrapped("requestToFollow", "findRequest", call.args,
                                   "BadRequest", "Follow request already sent.")
           ELSE /\ Resume(call, [call EXCEPT !.at = "createRequest"])
                /\ last' = Pending("requestToFollow", "findRequest", call.args)
        /\ UNCHANGED <<authVars, followVars, clockVars, historyVars, followHistory>>
        /\ UNCHANGED <<onDelete, nextRefreshTokenId>>

\* prisma.followRequests.create: the unique index on (requesterId, targetId)
\* refuses the request that another call has stored since the lookup, and a
\* foreign key the request of a user who has been deleted (P2003).
requestToFollow_createRequest(call) ==
    LET targetId == call.args[1]
        userId == call.args[2]
    IN  /\ call.op = "requestToFollow"
        /\ call.at = "createRequest"
        /\ IF FindFollowRequest(userId, targetId) # {}
           THEN /\ Finish(call)
                /\ last' = Wrapped("requestToFollow", "createRequest", call.args,
                                   "UniqueConstraint", "")
                /\ UNCHANGED <<followRequests, nextRequestId, onDelete>>
           ELSE \E action \in Read("followRequests", {userId, targetId}) :
                /\ onDelete' = [onDelete EXCEPT !["followRequests"] = action]
                /\ IF Refused(action, {userId, targetId})
                   THEN /\ Finish(call)
                        /\ last' = Wrapped("requestToFollow", "createRequest",
                                           call.args, "ForeignKeyConstraint", "")
                        /\ UNCHANGED <<followRequests, nextRequestId>>
                   ELSE /\ nextRequestId <= MaxFollowRequests
                        /\ Finish(call)
                        /\ followRequests' = followRequests \cup
                               {[id |-> nextRequestId, requesterId |-> userId,
                                 targetId |-> targetId]}
                        /\ nextRequestId' = nextRequestId + 1
                        /\ last' = Returned("requestToFollow", "createRequest",
                                            call.args, "Follow request sent.",
                                            <<>>)
        /\ UNCHANGED <<authVars, followers, uploads>>
        /\ UNCHANGED <<clockVars, historyVars, followHistory>>
        /\ UNCHANGED nextRefreshTokenId

\* ---------------------------------------------------- acceptFollowRequest
\* Mutant: the two statements run one after the other, outside a transaction:
\* the edge stays when the delete fails.
Transaction_NotAtomic(fs, rs, edge, id) ==
    IF edge \in fs
    THEN <<fs, rs, "UniqueConstraint">>
    ELSE IF ~\E r \in rs : r.id = id
    THEN <<fs \cup {edge}, rs, "RecordNotFound">>
    ELSE <<fs \cup {edge}, { r \in rs : r.id # id }, "none">>

\* prisma.$transaction([followers.create(edge), followRequests.delete(id)]):
\* the followers and the requests afterwards, and the error.  The create
\* fails on the unique index when the edge is stored, the delete fails when
\* the row is gone, and a failure of either rolls both back.
Transaction(fs, rs, edge, id) ==
    IF edge \in fs
    THEN <<fs, rs, "UniqueConstraint">>
    ELSE IF ~\E r \in rs : r.id = id
    THEN <<fs, rs, "RecordNotFound">>
    ELSE <<fs \cup {edge}, { r \in rs : r.id # id }, "none">>

\* The first await, prisma.followRequests.findUnique of the pair: without a
\* request the call ends here.
acceptFollowRequest_findUnique(targetId, userId) ==
    LET found == FindFollowRequest(userId, targetId)
        args == <<targetId, userId>>
    IN  /\ IF found = {}
           THEN /\ last' = Wrapped("acceptFollowRequest", "findUnique", args,
                                   "BadRequest", "No follow request found.")
                /\ UNCHANGED inflight
           ELSE \E request \in found :
                /\ Await(Call("acceptFollowRequest", args, "transaction",
                              [id |-> request.id]))
                /\ last' = Pending("acceptFollowRequest", "findUnique", args)
        /\ UNCHANGED <<authVars, followVars, clockVars, historyVars, followHistory>>
        /\ UNCHANGED <<onDelete, nextRefreshTokenId>>

\* The second await, the transaction, on the tables as they are by then.  A
\* foreign key refuses the edge of a user who has been deleted (P2003), and
\* the transaction is rolled back.
acceptFollowRequest_transaction(call) ==
    LET targetId == call.args[1]
        userId == call.args[2]
        edge == Edge(userId, targetId)
    IN  /\ call.op = "acceptFollowRequest"
        /\ call.at = "transaction"
        /\ Finish(call)
        /\ \E action \in IF edge \in followers THEN {onDelete["followers"]}
                          ELSE Read("followers", {userId, targetId}) :
           LET done == IF edge \notin followers
                          /\ Refused(action, {userId, targetId})
                       THEN <<followers, followRequests, "ForeignKeyConstraint">>
                       ELSE Transaction(followers, followRequests, edge,
                                        call.row.id)
           IN  /\ onDelete' = [onDelete EXCEPT !["followers"] = action]
               /\ followers' = done[1]
               /\ followRequests' = done[2]
               /\ accepted' = IF done[3] = "none"
                              THEN accepted \cup {edge}
                              ELSE accepted
               /\ last' = IF done[3] = "none"
                          THEN Returned("acceptFollowRequest", "transaction",
                                        call.args, "Follow request accepted.", <<>>)
                          ELSE Wrapped("acceptFollowRequest", "transaction",
                                       call.args, done[3], "")
        /\ UNCHANGED <<authVars, nextRequestId, uploads, clockVars, historyVars>>
        /\ UNCHANGED <<overwritten, everPublic>>
        /\ UNCHANGED nextRefreshTokenId

\* ---------------------------------------------------- cancelFollowRequest
\* The first await, prisma.followRequests.findFirst of the pair.
cancelFollowRequest_findFirst(requesterId, targetId) ==
    LET found == FindFollowRequest(requesterId, targetId)
        args == <<requesterId, targetId>>
    IN  /\ IF found = {}
           THEN /\ last' = Wrapped("cancelFollowRequest", "findFirst", args,
                                   "BadRequest", "No follow request found.")
                /\ UNCHANGED inflight
           ELSE \E followRequest \in found :
                /\ Await(Call("cancelFollowRequest", args, "delete",
                              [id |-> followRequest.id]))
                /\ last' = Pending("cancelFollowRequest", "findFirst", args)
        /\ UNCHANGED <<authVars, followVars, clockVars, historyVars, followHistory>>
        /\ UNCHANGED <<onDelete, nextRefreshTokenId>>

\* prisma.followRequests.delete({ where: { id } }): the row that another
\* call has deleted since the lookup is not found (P2025).
cancelFollowRequest_delete(call) ==
    /\ call.op = "cancelFollowRequest"
    /\ call.at = "delete"
    /\ Finish(call)
    /\ IF \E r \in followRequests : r.id = call.row.id
       THEN /\ followRequests' =
                   { r \in followRequests : r.id # call.row.id }
            /\ last' = Returned("cancelFollowRequest", "delete", call.args,
                                "Follow request canceled successfully.", <<>>)
       ELSE /\ last' = Wrapped("cancelFollowRequest", "delete", call.args,
                               "RecordNotFound", "")
            /\ UNCHANGED followRequests
    /\ UNCHANGED <<authVars, followers, nextRequestId, uploads>>
    /\ UNCHANGED <<clockVars, historyVars, followHistory>>
    /\ UNCHANGED <<onDelete, nextRefreshTokenId>>

\* ----------------------------------------------------------- unfollowUser
\* Mutant: the filter names the edge from the target to the caller.
DeleteMany_Swapped(fs, userId, targetId) ==
    { f \in fs : ~(f.followerId = targetId /\ f.followingId = userId) }

\* prisma.followers.deleteMany({ where: { followerId: userId, followingId } })
DeleteMany(fs, userId, targetId) ==
    { f \in fs : ~(f.followerId = userId /\ f.followingId = targetId) }

\* The one await of the handler.
unfollowUser(targetId, userId) ==
    /\ followers' = DeleteMany(followers, userId, targetId)
    /\ accepted' = DeleteMany(accepted, userId, targetId)
    /\ last' = Returned("unfollowUser", "deleteMany", <<targetId, userId>>,
                        "Unfollowed successfully.", <<>>)
    /\ UNCHANGED <<authVars, followRequests, nextRequestId, uploads>>
    /\ UNCHANGED <<clockVars, historyVars, inflight, overwritten, everPublic>>
    /\ UNCHANGED <<onDelete, nextRefreshTokenId>>

\* ------------------------------------------- the token API: AuthenticationService
\* What the offset of the server's zone from UTC moves by, in minutes, over
\* the three days after a login, in the runs of the token API: nothing, half
\* an hour back (the summer time of Lord Howe Island), two hours on (that of
\* Troll station), and a day back (the day Samoa left out when it crossed
\* the date line).
ZoneShifts == {0 - MinutesPerDay, -30, 0, 120}

\* Two accounts register (under one salt), log in and refresh their tokens,
\* step by step, while the clock moves by the life of a refresh token: the
\* runs of register, login and refreshTokens.
NextLogin ==
    \/ \E e \in Emails : register_findUnique(e, 1)
    \/ \E call \in Calls : register_create(call, 1)
    \/ \E e \in Emails, p \in {1, 2} : login_findUnique(e, p)
    \/ \E call \in Calls, shift \in ZoneShifts :
           login_compare(call, now + RefreshTtl + shift)
    \/ \E call \in Calls : login_upsert(call)
    \/ \E t \in Uuids : refreshTokens_newDate(t)
    \/ \E call \in Calls : refreshTokens_findFirst(call)
    \/ \E call \in Calls : refreshTokens_update(call)
    \/ \E d \in {RefreshTtl} : Tick(d)

SpecLogin == Init /\ [][NextLogin]_vars

\* The e-mail address of the one account of a run; the other address stays
\* unknown.
SessionEmails == {1}

\* One account registers (under one salt), logs in with its address (which
\* is unknown before it registers and after it is deleted) and the right or a
\* wrong password, refreshes its tokens and is deleted, step by step, while
\* the clock moves by the life of a refresh token.
NextToken ==
    \/ \E e \in SessionEmails : register_findUnique(e, 1)
    \/ \E call \in Calls : register_create(call, 1)
    \/ \E e \in SessionEmails, p \in {1, 2} : login_findUnique(e, p)
    \/ \E call \in Calls, shift \in ZoneShifts :
           login_compare(call, now + RefreshTtl + shift)
    \/ \E call \in Calls : login_upsert(call)
    \/ \E t \in Uuids : refreshTokens_newDate(t)
    \/ \E call \in Calls : refreshTokens_findFirst(call)
    \/ \E call \in Calls : refreshTokens_update(call)
    \/ \E u \in UserIds : delete(u)
    \/ \E d \in {RefreshTtl} : Tick(d)

SpecToken == Init /\ [][NextToken]_vars

\* ---------------------------------------- the password API: AuthenticationService
\* register (under every salt), login and changePassword (under one salt),
\* step by step, for one account, on a server whose zone keeps its offset.
NextPassword ==
    \/ \E e \in SessionEmails, p \in Passwords : register_findUnique(e, p)
    \/ \E call \in Calls, s \in Salts : register_create(call, s)
    \/ \E e \in Emails, p \in Passwords : login_findUnique(e, p)
    \/ \E call \in Calls : login_compare(call, now + RefreshTtl)
    \/ \E call \in Calls : login_upsert(call)
    \/ \E u \in UserIds, o \in Passwords, n \in Passwords :
           changePassword_findUnique(u, o, n)
    \/ \E call \in Calls : changePassword_compare(call)
    \/ \E call \in Calls : changePassword_update(call, 1)

SpecPassword == Init /\ [][NextPassword]_vars

\* ------------------------------------------- the reset API: AuthenticationService
\* Accounts register under one e-mail address and are deleted;
\* forgotPassword and resetPassword run step by step, with the clock moving
\* by the life of a reset token, or by a minute more.
NextReset ==
    \/ \E e \in SessionEmails : register_findUnique(e, 1)
    \/ \E call \in Calls : register_create(call, 1)
    \/ \E e \in Emails : forgotPassword_findUnique(e)
    \/ \E call \in Calls : forgotPassword_create(call)
    \/ \E t \in Nanoids, p \in {1, 2} : resetPassword_newDate(t, p)
    \/ \E call \in Calls : resetPassword_findFirst(call)
    \/ \E call \in Calls : resetPassword_findUnique(call)
    \/ \E call \in Calls, s \in Salts : resetPassword_update(call, s)
    \/ \E u \in UserIds : delete(u)
    \/ \E d \in {ResetTtl, ResetTtl + 1} : Tick(d)

SpecReset == Init /\ [][NextReset]_vars

\* ------------------------------- sessions and passwords: AuthenticationService
\* One user registers and logs in with password 1, refreshes the tokens, and
\* changes or resets the password to password 2, while the clock moves by
\* the life of a refresh token. The login sets its expiry in the local time
\* of the server, over ZoneShifts; changePassword is called with password 1
\* as the old one, which is right until the password has changed and wrong
\* afterwards.
NextSession ==
    \/ \E e \in SessionEmails : register_findUnique(e, 1)
    \/ \E call \in Calls : register_create(call, 1)
    \/ \E e \in SessionEmails : login_findUnique(e, 1)
    \/ \E call \in Calls, shift \in ZoneShifts :
           login_compare(call, now + RefreshTtl + shift)
    \/ \E call \in Calls : login_upsert(call)
    \/ \E t \in Uuids : refreshTokens_newDate(t)
    \/ \E call \in Calls : refreshTokens_findFirst(call)
    \/ \E call \in Calls : refreshTokens_update(call)
    \/ \E u \in DOMAIN users : changePassword_findUnique(u, 1, 2)
    \/ \E call \in Calls : changePassword_compare(call)
    \/ \E call \in Calls : changePassword_update(call, 1)
    \/ \E e \in SessionEmails : forgotPassword_findUnique(e)
    \/ \E call \in Calls : forgotPassword_create(call)
    \/ \E t \in Nanoids : resetPassword_newDate(t, 2)
    \/ \E call \in Calls : resetPassword_findFirst(call)
    \/ \E call \in Calls : resetPassword_findUnique(call)
    \/ \E call \in Calls : resetPassword_update(call, 1)
    \/ \E d \in {RefreshTtl} : Tick(d)

SpecSession == Init /\ [][NextSession]_vars

\* ------------------------------------------------ the follow API: ProfileService
\* The users whose follow requests the runs follow: user 1 asks to follow
\* itself and user 2, and nothing in the handlers keeps a user from naming
\* itself as the target.
Requesters == {1}

\* Users register, switch their account between private and public (an edit
\* with a picture whose upload works, and the e-mail left as it is), and the
\* requests of the requesters are made, accepted, cancelled and undone.
NextFollow ==
    \/ \E e \in Emails : register_findUnique(e, 1)
    \/ \E call \in Calls : register_create(call, 1)
    \/ \E u \in DOMAIN users, b \in {"true", "false"} :
           editProfile_diskStorage(u, 0, <<"boolean", b>>, 1)
    \/ \E call \in Calls : editProfile_findUnique(call)
    \/ \E call \in Calls : editProfile_upload(call, TRUE)
    \/ \E call \in Calls : editProfile_unlink(call)
    \/ \E call \in Calls : editProfile_update(call)
    \/ \E t \in UserIds, u \in Requesters \cap DOMAIN users :
           requestToFollow_findUnique(t, u)
    \/ \E call \in Calls : requestToFollow_findFollow(call)
    \/ \E call \in Calls : requestToFollow_createFollow(call)
    \/ \E call \in Calls : requestToFollow_findRequest(call)
    \/ \E call \in Calls : requestToFollow_createRequest(call)
    \/ \E t \in UserIds, u \in Requesters : acceptFollowRequest_findUnique(t, u)
    \/ \E call \in Calls : acceptFollowRequest_transaction(call)
    \/ \E r \in Requesters, t \in UserIds : cancelFollowRequest_findFirst(r, t)
    \/ \E call \in Calls : cancelFollowRequest_delete(call)
    \/ \E t \in UserIds, u \in Requesters : unfollowUser(t, u)

SpecFollow == Init /\ [][NextFollow]_vars

\* ------------------------------------------- the follow API on stored accounts
\* The database after one or two accounts have registered and edited their
\* profiles, each choosing to be private or public, and before anyone follows
\* anyone.  The history starts here: everPublic tells who has been public
\* from this state on.
StoredAccount(email, private) ==
    [email |-> email, password |-> BcryptHash(1, 1),
     is_private |-> private, profile_picture |-> "secure_url"]

InitAccounts ==
    /\ \E private \in [UserIds -> BOOLEAN], n \in UserIds :
           /\ users = [u \in 1..n |-> StoredAccount(u, private[u])]
           /\ everPublic = [u \in UserIds |-> u <= n /\ ~private[u]]
    /\ refreshToken = {}
    /\ resetToken = {}
    /\ followers = {}
    /\ followRequests = {}
    /\ nextRequestId = 1
    /\ sentMail = {}
    /\ uploads = {}
    /\ now = 0
    /\ ticks = 0
    /\ uuidCount = 0
    /\ nanoidCount = 0
    /\ onDelete = [refreshToken |-> "unread", resetToken |-> "unread",
                   followers |-> "unread", followRequests |-> "unread"]
    /\ nextRefreshTokenId = 1
    /\ inflight = EmptyBag
    /\ last = Returned("init", "", <<>>, "", <<>>)
    /\ rotated = {}
    /\ redeemed = {}
    /\ issuedAt = [t \in Nanoids |-> 0]
    /\ changed = [u \in UserIds |-> <<>>]
    /\ overwritten = {}
    /\ accepted = {}

\* An account that is not stored yet registers, the account that is asked
\* switches between private and public, the accounts are deleted, and the
\* requests of the requesters to follow the other account are made, accepted,
\* cancelled and undone. The requesters start private or public and stay so.
NextAccounts ==
    \/ \E e \in Emails : register_findUnique(e, 1)
    \/ \E call \in Calls : register_create(call, 1)
    \/ \E u \in DOMAIN users \ Requesters, b \in {"true", "false"} :
           editProfile_diskStorage(u, 0, <<"boolean", b>>, 1)
    \/ \E call \in Calls : editProfile_findUnique(call)
    \/ \E call \in Calls : editProfile_upload(call, TRUE)
    \/ \E call \in Calls : editProfile_unlink(call)
    \/ \E call \in Calls : editProfile_update(call)
    \/ \E t \in UserIds \ Requesters, u \in Requesters :
           requestToFollow_findUnique(t, u)
    \/ \E call \in Calls : requestToFollow_findFollow(call)
    \/ \E call \in Calls : requestToFollow_createFollow(call)
    \/ \E call \in Calls : requestToFollow_findRequest(call)
    \/ \E call \in Calls : requestToFollow_createRequest(call)
    \/ \E t \in UserIds \ Requesters, u \in Requesters :
           acceptFollowRequest_findUnique(t, u)
    \/ \E call \in Calls : acceptFollowRequest_transaction(call)
    \/ \E r \in Requesters, t \in UserIds \ Requesters :
           cancelFollowRequest_findFirst(r, t)
    \/ \E call \in Calls : cancelFollowRequest_delete(call)
    \/ \E t \in UserIds \ Requesters, u \in Requesters : unfollowUser(t, u)
    \/ \E u \in UserIds : delete(u)

SpecFollowAccounts == InitAccounts /\ [][NextAccounts]_vars

\* ------------------------------------------- the profile API: ProfileService
\* Users register, edit their profile and make it private, with or without
\* a picture and an e-mail change, the upload working or not; an
\* administrator changes the e-mail address of a user, sets the password of
\* the first user and makes that account public, and deletes users.
NextProfile ==
    \/ \E e \in Emails : register_findUnique(e, 1)
    \/ \E call \in Calls : register_create(call, 1)
    \/ \E u \in UserIds, e \in {0} \cup Emails, f \in {0} \cup Files :
           editProfile_diskStorage(u, e, <<"boolean", "true">>, f)
    \/ \E call \in Calls : editProfile_findUnique(call)
    \/ \E call \in Calls, ok \in BOOLEAN : editProfile_upload(call, ok)
    \/ \E call \in Calls : editProfile_unlink(call)
    \/ \E call \in Calls : editProfile_update(call)
    \/ \E u \in UserIds, e \in {0} \cup Emails :
           updateUser(u, e, 0, "undefined")
    \/ \E u \in {1} : updateUser(u, 0, BcryptHash(2, 1), "false")
    \/ \E u \in UserIds : delete(u)

SpecProfile == Init /\ [][NextProfile]_vars

\* The two stored accounts edit their profile with every kind of privacy
\* flag (with a picture whose upload works, and the e-mail left as it is),
\* and the requesters ask to follow.
NextPrivacy ==
    \/ \E u \in UserIds, i \in IsPrivateInputs :
           editProfile_diskStorage(u, 0, i, 1)
    \/ \E call \in Calls : editProfile_findUnique(call)
    \/ \E call \in Calls : editProfile_upload(call, TRUE)
    \/ \E call \in Calls : editProfile_unlink(call)
    \/ \E call \in Calls : editProfile_update(call)
    \/ \E t \in UserIds, u \in Requesters : requestToFollow_findUnique(t, u)
    \/ \E call \in Calls : requestToFollow_findFollow(call)
    \/ \E call \in Calls : requestToFollow_createFollow(call)
    \/ \E call \in Calls : requestToFollow_findRequest(call)
    \/ \E call \in Calls : requestToFollow_createRequest(call)

SpecPrivacy == InitAccounts /\ [][NextPrivacy]_vars

\* ================================================================== claims

\* C1: once refreshTokens(t) has succeeded, the lookup of every
\* refreshTokens(t) with the same value t that the database serves from then
\* on finds no row, and the call fails with Unauthorized and leaves the rows
\* as they are, also while t's original expiry has not passed.
C1_ReplayedRefreshTokenRejected ==
    [][\A call \in Calls :
          (/\ call.op = "refreshTokens"
           /\ call.at = "findFirst"
           /\ last'.op = "refreshTokens"
           /\ last'.at = "findFirst"
           /\ CopiesIn(call, inflight') < CopiesIn(call, inflight)
           /\ call.args[1] \in rotated)
             => /\ last'.err = "Unauthorized"
                /\ last'.args = call.args
                /\ refreshToken' = refreshToken]_vars

\* A replay of a rotated token is rejected before any token can have
\* expired, while the row holds the token that replaced it.
C1_Witness ==
    /\ last.op = "refreshTokens"
    /\ last.at = "findFirst"
    /\ last.args[1] \in rotated
    /\ last.err = "Unauthorized"
    /\ refreshToken # {}
    /\ now = 0

\* C2: every user has at most one stored RefreshToken row.
C2_OneRefreshTokenPerUser ==
    \A u \in UserIds : Cardinality({r \in refreshToken : r.userId = u}) <= 1

\* A second login of a user who already had a row.
C2_Witness ==
    /\ last.op = "login"
    /\ last.err = "none"
    /\ rotated = {}
    /\ last.out[3] > Cardinality(refreshToken)

\* C3: a login for an unknown e-mail fails at its lookup and a login with a
\* password that does not match the hash the lookup read fails at the
\* comparison, both with Unauthorized and the message "Invalid credentials";
\* no login fails in another way, and a failing login leaves the RefreshToken
\* rows as they were.
C3_LoginFailuresIndistinguishable ==
    [][last'.op = "login" =>
          /\ (last'.at = "findUnique" /\ FindUserByEmail(last'.args[1]) = 0)
                 => last'.err = "Unauthorized"
          /\ \A call \in Calls :
                 (/\ last'.at = "compare"
                  /\ call.op = "login"
                  /\ call.at = "compare"
                  /\ CopiesIn(call, inflight') < CopiesIn(call, inflight)
                  /\ ~BcryptCompare(call.args[2], call.row.password))
                     => last'.err = "Unauthorized" /\ last'.args = call.args
          /\ last'.err \notin {"none", "pending"}
                 => /\ last'.err = "Unauthorized"
                    /\ last'.msg = "Invalid credentials"
                    /\ last'.cause = "none"
                    /\ last'.out = <<>>
                    /\ refreshToken' = refreshToken]_vars

\* A login with an unknown e-mail has failed after a login of a stored user
\* with a wrong password has failed, while another login has stored a row.
C3_Witness ==
    /\ last.op = "login"
    /\ last.at = "findUnique"
    /\ last.err = "Unauthorized"
    /\ FindUserByEmail(last.args[1]) = 0
    /\ refreshToken # {}

\* C5: refreshTokens(t) reads the clock when it is called, and its lookup
\* accepts t exactly when a stored row has token t and an expiry >= that
\* time; otherwise the call fails with Unauthorized, and the lookup leaves
\* the rows unchanged either way.  With the row in its hands the handler
\* makes the new expiry, the time of that moment + 3 days: 3 days after an
\* instant between the call and the write.  A call whose token was accepted
\* succeeds when its row is still stored, and then the one row of its user
\* holds the refresh token the call returns, with that expiry; when the row
\* has gone with its user, the call fails with the error of the update and
\* the rows stay as they are.
C5_RefreshSucceedsIffStoredAndUnexpired ==
    [][last'.op = "refreshTokens" =>
          /\ last'.at = "newDate" =>
                /\ refreshToken' = refreshToken
                /\ \E call \in BagToSet(inflight') :
                      /\ CopiesIn(call, inflight') > CopiesIn(call, inflight)
                      /\ call.args = last'.args
                      /\ call.at = "findFirst"
                      /\ call.row.gte = now
          /\ \A call \in Calls :
                (/\ last'.at = "findFirst"
                 /\ call.op = "refreshTokens"
                 /\ call.at = "findFirst"
                 /\ CopiesIn(call, inflight') < CopiesIn(call, inflight)) =>
                    /\ refreshToken' = refreshToken
                    /\ last'.args = call.args
                    /\ IF \E r \in refreshToken :
                              r.token = call.args[1] /\ r.expiryDate >= call.row.gte
                       THEN /\ last'.err = "pending"
                            /\ \E next \in BagToSet(inflight') :
                                  /\ CopiesIn(next, inflight') > CopiesIn(next, inflight)
                                  /\ next.args = call.args
                                  /\ next.at = "update"
                                  /\ \E r \in refreshToken :
                                        /\ r.token = call.args[1]
                                        /\ r.id = next.row.id
                                        /\ r.userId = next.row.userId
                                  /\ next.row.expiryDate =
                                        now + RefreshTokenDays * HoursPerDay * MinutesPerHour
                                  /\ next.row.expiryDate >= call.row.gte + RefreshTtl
                       ELSE last'.err = "Unauthorized"
          /\ \A call \in Calls :
                (/\ last'.at = "update"
                 /\ call.op = "refreshTokens"
                 /\ call.at = "update"
                 /\ CopiesIn(call, inflight') < CopiesIn(call, inflight)) =>
                    IF \E r \in refreshToken : r.id = call.row.id
                    THEN /\ last'.err = "none"
                         /\ last'.out[1] = call.row.userId
                         /\ \E r \in refreshToken' :
                                /\ r.userId = last'.out[1]
                                /\ r.token = last'.out[3]
                                /\ r.expiryDate = call.row.expiryDate
                                /\ r.expiryDate <= now + RefreshTtl
                                /\ \A q \in refreshToken' :
                                       q.userId = r.userId => q = r
                    ELSE /\ last'.err = "RecordNotFound"
                         /\ call.row.userId \notin StoredUsers
                         /\ refreshToken' = refreshToken
          /\ last'.err \in {"none", "pending", "Unauthorized", "RecordNotFound"}]_vars

\* A stored token has been refused because its expiry has passed.
C5_Witness ==
    /\ last.op = "refreshTokens"
    /\ last.err = "Unauthorized"
    /\ \E r \in refreshToken : r.token = last.args[1] /\ r.expiryDate < now

\* C19: refreshTokens calls that looked up the same valid token before any of
\* them wrote all succeed while the row is stored, each with a fresh token
\* different from every token returned before.  Each write replaces what the
\* row holds by then, so the row holds only the token written last and every
\* user keeps one row; a token that was overwritten this way without having
\* been used is in no row, and the lookup of a refreshTokens with it finds
\* nothing: the call fails with Unauthorized.
C19_RacingRefreshesLastWriteWins ==
    [][/\ \A call \in BagToSet(inflight) :
            (/\ call.op = "refreshTokens"
             /\ call.at = "update"
             /\ last'.op = "refreshTokens"
             /\ last'.at = "update"
             /\ inflight' = inflight (-) SetToBag({call})
             /\ \E r \in refreshToken : r.id = call.row.id) =>
                /\ last'.err = "none"
                /\ last'.args = call.args
                /\ \A r \in refreshToken : r.token # last'.out[3]
                /\ last'.out[3] \notin overwritten' \cup rotated'
                /\ \A r \in refreshToken' :
                      /\ r.id = call.row.id => r.token = last'.out[3]
                      /\ r.userId = call.row.userId => r.id = call.row.id
                /\ \A r \in refreshToken :
                      r.id = call.row.id =>
                          \A q \in refreshToken' : q.token # r.token
                /\ \A r \in refreshToken, q \in refreshToken :
                      r.userId = q.userId => r = q
                /\ \A r \in refreshToken', q \in refreshToken' :
                      r.userId = q.userId => r = q
       /\ \A r \in refreshToken' : r.token \notin overwritten'
       /\ \A call \in BagToSet(inflight) :
            (/\ call.op = "refreshTokens"
             /\ call.at = "findFirst"
             /\ last'.op = "refreshTokens"
             /\ last'.at = "findFirst"
             /\ CopiesIn(call, inflight') < CopiesIn(call, inflight)
             /\ call.args[1] \in overwritten) =>
                /\ last'.err = "Unauthorized"
                /\ last'.args = call.args
                /\ refreshToken' = refreshToken]_vars

\* Two calls looked up the same token and both wrote; the token the first
\* write returned has just been refused, and the row holds the token of the
\* second write.
C19_Witness ==
    /\ last.op = "refreshTokens"
    /\ last.at = "findFirst"
    /\ last.err = "Unauthorized"
    /\ last.args[1] \in overwritten
    /\ \E r \in refreshToken :
           /\ r.token > last.args[1]
           /\ \A q \in refreshToken : q.userId = r.userId => q = r

\* C4: register with an e-mail that belongs to a stored user fails with
\* Conflict at its lookup and leaves the user table unchanged; an e-mail that
\* another call stored after the lookup makes the insert fail, on the unique
\* index, and the table is unchanged as well.  A successful register appends
\* one user whose stored password is a hash of the plaintext and not the
\* plaintext, and no two users ever share an e-mail.
C4_RegisterConflictAndHash ==
    [][last'.op = "register" =>
          /\ last'.at = "findUnique" =>
                /\ users' = users
                /\ IF FindUserByEmail(last'.args[1]) # 0
                   THEN last'.err = "Conflict"
                   ELSE last'.err = "pending"
          /\ last'.at = "create" =>
                IF FindUserByEmail(last'.args[1]) # 0
                THEN last'.err = "UniqueConstraint" /\ users' = users
                ELSE /\ last'.err = "none"
                     /\ Len(users') = Len(users) + 1
                     /\ SubSeq(users', 1, Len(users)) = users
                     /\ users'[Len(users')].email = last'.args[1]
                     /\ users'[Len(users')].password # last'.args[2]
                     /\ users'[Len(users')].password \notin Passwords
                     /\ \E s \in Salts :
                            users'[Len(users')].password =
                                s * (Cardinality(Passwords) + 1)
                                  + First72(last'.args[2])
          /\ \A i, j \in DOMAIN users' :
                 users'[i].email = users'[j].email => i = j]_vars

\* A second registration of a stored e-mail, with another password, has been
\* refused.
C4_Witness ==
    /\ last.op = "register"
    /\ last.err = "Conflict"
    /\ \E i \in DOMAIN users :
           /\ users[i].email = last.args[1]
           /\ ~BcryptCompare(last.args[2], users[i].password)

\* C6 as stated, for every pair of passwords: after a successful
\* changePassword(old, new) of a user, a login of that user that reads the
\* row after the change passes the password check with new and goes on to
\* succeed, and fails with old, until the password is written again.
C6_OldPasswordRejectedForEveryPair ==
    [][\A call \in Calls :
          (/\ last'.op = "login"
           /\ call.op = "login"
           /\ call.at = "compare"
           /\ CopiesIn(call, inflight') < CopiesIn(call, inflight)
           /\ changed[call.row.id] # <<>>
           /\ call.row.password = users[call.row.id].password)
             => LET c == changed[call.row.id]
                IN  /\ call.args[2] = c[2] => last'.err = "pending"
                    /\ call.args[2] = c[1] => last'.err = "Unauthorized"]_vars

\* C6, amended: the same for every pair whose passwords differ within their
\* first 72 bytes, the part of a password bcrypt reads.  The login that has
\* passed the check succeeds at its last step.
C6_OldPasswordRejectedWhenDifferent ==
    [][/\ \A call \in Calls :
            (/\ last'.op = "login"
             /\ call.op = "login"
             /\ call.at = "compare"
             /\ CopiesIn(call, inflight') < CopiesIn(call, inflight)
             /\ changed[call.row.id] # <<>>
             /\ call.row.password = users[call.row.id].password)
               => LET c == changed[call.row.id]
                  IN  First72(c[1]) # First72(c[2])
                         => /\ call.args[2] = c[2] => last'.err = "pending"
                            /\ call.args[2] = c[1] => last'.err = "Unauthorized"
       /\ (last'.op = "login" /\ last'.at = "upsert") => last'.err = "none"]_vars

\* A login that read the row after a change to another password, with the
\* old password, has failed at the comparison.
C6_Witness ==
    /\ last.op = "login"
    /\ last.at = "compare"
    /\ last.err = "Unauthorized"
    /\ FindUserByEmail(last.args[1]) # 0
    /\ LET c == changed[FindUserByEmail(last.args[1])]
       IN  /\ c # <<>>
           /\ First72(c[1]) # First72(c[2])
           /\ last.args[2] = c[1]
           /\ BcryptCompare(c[2], users[FindUserByEmail(last.args[1])].password)

\* C18: changePassword fails with NotFound at its lookup when no user is
\* stored under the user id, and with Unauthorized at its comparison when
\* the old password does not match the hash the lookup read; neither step
\* changes a stored hash.  A stored hash changes only when a changePassword
\* succeeds, and then the hash of that user, and of no other, is replaced by
\* a hash of the new password.
C18_ChangePasswordErrorsKeepHash ==
    [][last'.op = "changePassword" =>
          LET u == last'.args[1]
              o == last'.args[2]
              n == last'.args[3]
          IN  /\ last'.at = "findUnique" =>
                    /\ users' = users
                    /\ IF u \in StoredUsers THEN last'.err = "pending"
                       ELSE last'.err = "NotFound"
              /\ \A call \in Calls :
                    (/\ last'.at = "compare"
                     /\ call.op = "changePassword"
                     /\ call.at = "compare"
                     /\ call.args = last'.args
                     /\ CopiesIn(call, inflight') < CopiesIn(call, inflight)) =>
                        /\ users' = users
                        /\ IF \E s \in Salts :
                                 call.row.password =
                                     s * (Cardinality(Passwords) + 1) + First72(o)
                           THEN last'.err = "pending"
                           ELSE last'.err = "Unauthorized"
              /\ users' # users => last'.err = "none" /\ last'.at = "update"
              /\ last'.at = "update" =>
                    /\ last'.err = "none"
                    /\ u \in StoredUsers
                    /\ \E s \in Salts :
                           users'[u].password =
                               s * (Cardinality(Passwords) + 1) + First72(n)
                    /\ users' = [users EXCEPT ![u].password = users'[u].password]]_vars

\* A changePassword to another password has just succeeded: the stored hash
\* matches the new password and no longer the old one.
C18_Witness ==
    /\ last.op = "changePassword"
    /\ last.err = "none"
    /\ BcryptCompare(last.args[3], users[last.args[1]].password)
    /\ ~BcryptCompare(last.args[2], users[last.args[1]].password)

\* C7: after resetPassword has succeeded with reset token r, every
\* resetPassword with r that starts later fails with Unauthorized.
C7_ResetTokenSingleUse ==
    [][(/\ last'.op = "resetPassword"
        /\ last'.at = "findFirst"
        /\ last'.args[1] \in redeemed)
          => last'.err = "Unauthorized"]_vars

\* C8: resetPassword reads the clock when it is called.  When every stored
\* row with its token value has its expiry before that time, or there is no
\* such row, its lookup fails with Unauthorized; the call and the lookup
\* leave every stored password unchanged; and the lookup accepts a token
\* forgotPassword made at time T only for a call made while now <= T + 1
\* hour.
C8_ExpiredResetTokenRejected ==
    [][last'.op = "resetPassword" =>
          /\ last'.at = "newDate" =>
                /\ users' = users
                /\ \E call \in BagToSet(inflight') :
                      /\ CopiesIn(call, inflight') > CopiesIn(call, inflight)
                      /\ call.args = last'.args
                      /\ call.at = "findFirst"
                      /\ call.row.gte = now
          /\ \A call \in Calls :
                (/\ last'.at = "findFirst"
                 /\ call.op = "resetPassword"
                 /\ call.at = "findFirst"
                 /\ CopiesIn(call, inflight') < CopiesIn(call, inflight)) =>
                    /\ users' = users
                    /\ last'.args = call.args
                    /\ last'.err \in {"pending", "Unauthorized"}
                    /\ (\A r \in resetToken :
                            r.token = call.args[1] => r.expiryDate < call.row.gte)
                           => last'.err = "Unauthorized"
                    /\ last'.err = "pending"
                           => call.row.gte <= issuedAt[call.args[1]] + ResetTtl]_vars

\* A stored reset token has been refused because its expiry has passed.
C8_Witness ==
    /\ last.op = "resetPassword"
    /\ last.at = "findFirst"
    /\ last.err = "Unauthorized"
    /\ \E r \in resetToken : r.token = last.args[1] /\ r.expiryDate < now

\* C9: forgotPassword returns the same message for a stored and for an unknown
\* e-mail.  For an unknown e-mail it returns after its lookup and creates and
\* sends nothing; for a stored one it creates one ResetToken row for that
\* user and calls the mail collaborator once, with the e-mail and the token.
\* It fails only when the user has been deleted between its two steps, and
\* then it creates and sends nothing.
C9_ForgotPasswordUniform ==
    [][last'.op = "forgotPassword"
          => /\ last'.err = "none" =>
                    last'.msg = "If user exists, they will receive an email"
             /\ last'.at = "findUnique" =>
                    /\ last'.err \in {"none", "pending"}
                    /\ resetToken' = resetToken /\ sentMail' = sentMail
                    /\ (last'.err = "none") = (FindUserByEmail(last'.args[1]) = 0)
             /\ \A call \in Calls :
                    (/\ last'.at = "create"
                     /\ call.op = "forgotPassword"
                     /\ call.args = last'.args
                     /\ CopiesIn(call, inflight') < CopiesIn(call, inflight)) =>
                        /\ call.row.id \in StoredUsers => last'.err = "none"
                        /\ last'.err = "none" =>
                              \E r \in resetToken' \ resetToken :
                                 /\ resetToken' = resetToken \cup {r}
                                 /\ r.userId = call.row.id
                                 /\ r.token = call.row.token
                                 /\ <<last'.args[1], r.token>> \notin sentMail
                                 /\ sentMail' =
                                       sentMail \cup {<<last'.args[1], r.token>>}
                        /\ last'.err # "none" =>
                              /\ last'.err = "ForeignKeyConstraint"
                              /\ resetToken' = resetToken
                              /\ sentMail' = sentMail]_vars

\* forgotPassword has answered for an unknown e-mail after a reset token was
\* made for a stored one.
C9_Witness ==
    /\ last.op = "forgotPassword"
    /\ last.err = "none"
    /\ FindUserByEmail(last.args[1]) = 0
    /\ last.args[1] \notin SessionEmails
    /\ resetToken # {}
    /\ Cardinality(sentMail) = Cardinality(resetToken)

\* C21: resetPassword leaves the ResetToken rows as they are: it deletes or
\* expires neither the token it used nor another token of the user;
\* forgotPassword adds a row and changes none issued earlier; so a
\* resetPassword with any stored token of a stored user that has not expired
\* when the call is made is accepted and succeeds, however often that token
\* or another one has been used.
C21_ResetTokensStayValid ==
    [][/\ last'.op = "resetPassword" =>
              /\ resetToken' = resetToken
              /\ \A call \in Calls :
                    (/\ call.op = "resetPassword"
                     /\ call.at = last'.at
                     /\ call.args = last'.args
                     /\ CopiesIn(call, inflight') < CopiesIn(call, inflight)) =>
                        /\ (/\ last'.at = "findFirst"
                            /\ \E r \in resetToken :
                                  /\ r.token = call.args[1]
                                  /\ r.expiryDate >= call.row.gte)
                               => /\ last'.err = "pending"
                                  /\ \E next \in BagToSet(inflight') :
                                        /\ CopiesIn(next, inflight') >
                                               CopiesIn(next, inflight)
                                        /\ next.at = "findUnique"
                                        /\ \E r \in resetToken :
                                              /\ r.token = call.args[1]
                                              /\ r.userId = next.row.userId
                        /\ (last'.at = "findUnique"
                            /\ call.row.userId \in StoredUsers)
                               => last'.err = "pending"
                        /\ (last'.at = "update" /\ call.row.id \in StoredUsers)
                               => last'.err = "none"
       /\ last'.op = "forgotPassword" =>
              /\ resetToken \subseteq resetToken'
              /\ Cardinality(resetToken' \ resetToken) <= 1]_vars

\* A user holds two reset tokens, both have reset the password, the second
\* use after the first, and both rows are still stored and unexpired.
C21_Witness ==
    /\ last.op = "resetPassword"
    /\ last.err = "none"
    /\ Cardinality(redeemed) = 2
    /\ \E u \in StoredUsers :
           \A t \in redeemed :
               \E r \in resetToken :
                   r.token = t /\ r.userId = u /\ r.expiryDate >= now

\* C23: changePassword and resetPassword leave every RefreshToken row as it
\* is, so the lookup of refreshTokens accepts a stored token that has not
\* expired when the call is made, whether or not the password of its user
\* has been changed or reset since the token was issued, and the call then
\* succeeds on the row it found; only its expiry or its rotation ends a
\* refresh token.
C23_PasswordChangeKeepsRefreshTokens ==
    [][/\ last'.op \in {"changePassword", "resetPassword"} =>
              refreshToken' = refreshToken
       /\ \A call \in Calls :
              (/\ last'.op = "refreshTokens"
               /\ call.op = "refreshTokens"
               /\ call.at = last'.at
               /\ call.args = last'.args
               /\ CopiesIn(call, inflight') < CopiesIn(call, inflight)) =>
                  /\ last'.at = "findFirst" =>
                        /\ (\E r \in refreshToken :
                                /\ r.token = call.args[1]
                                /\ r.expiryDate >= call.row.gte)
                               => last'.err = "pending"
                        /\ last'.err # "pending" =>
                               /\ last'.err = "Unauthorized"
                               /\ \A r \in refreshToken :
                                      r.token = call.args[1] =>
                                          r.expiryDate < call.row.gte
                  /\ (/\ last'.at = "update"
                      /\ \E r \in refreshToken : r.id = call.row.id) =>
                        last'.err = "none"]_vars

\* A refreshTokens has just succeeded for a user whose password is no longer
\* the one every login of this run used, with no login under way: the token
\* it rotated was issued to a login with the password that has been changed
\* or reset.
C23_Witness ==
    /\ last.op = "refreshTokens"
    /\ last.err = "none"
    /\ ~BcryptCompare(1, users[last.out[1]].password)
    /\ redeemed # {} \/ changed[last.out[1]] # <<>>
    /\ \A call \in Calls : call.op # "login"

\* ------------------------------------------------------------------- C10
\* C10: no ordered pair (A, B) has a Follower edge (follower A, following B)
\* and a FollowRequest (requester A, target B) at the same time.
C10_NoPairBothFollowerAndRequest ==
    \A a \in UserIds, b \in UserIds :
        ~(Edge(a, b) \in followers /\ FindFollowRequest(a, b) # {})

\* ------------------------------------------------------------------- C11
\* C11: a requestToFollow by user U on a stored target T goes on with the
\* followers when its lookup reads T as public, and with the follow requests
\* when it reads T as private.  On the public side, when U does not follow T
\* at the lookup of the edge and at the create, the call stores exactly the
\* Follower edge (U follows T) and no FollowRequest; on the private side,
\* when no FollowRequest of U for T is stored at the lookup and at the
\* create, it stores exactly the FollowRequest (requester U, target T) and no
\* Follower edge.
C11_RequestCreatesEdgeOrRequest ==
    [][\A t \in UserIds, u \in UserIds :
          (last'.op = "requestToFollow" /\ last'.args = <<t, u>>) =>
              LET edge == [followerId |-> u, followingId |-> t]
                  asked == { r \in followRequests :
                                 r.requesterId = u /\ r.targetId = t }
              IN  /\ (last'.at = "findUnique" /\ t \in DOMAIN users) =>
                         /\ last'.err = "pending"
                         /\ inflight' = inflight (+) SetToBag({
                                Call("requestToFollow", <<t, u>>,
                                     IF users[t].is_private
                                     THEN "findRequest" ELSE "findFollow",
                                     NoRow)})
                         /\ UNCHANGED <<followers, followRequests>>
                  /\ (last'.at = "findFollow" /\ edge \notin followers) =>
                         /\ last'.err = "pending"
                         /\ UNCHANGED <<followers, followRequests>>
                  /\ (last'.at = "createFollow" /\ edge \notin followers) =>
                         /\ last'.err = "none"
                         /\ followers' = followers \cup {edge}
                         /\ followRequests' = followRequests
                  /\ (last'.at = "findRequest" /\ asked = {}) =>
                         /\ last'.err = "pending"
                         /\ UNCHANGED <<followers, followRequests>>
                  /\ (last'.at = "createRequest" /\ asked = {}) =>
                         /\ last'.err = "none"
                         /\ followers' = followers
                         /\ followRequests \subseteq followRequests'
                         /\ Cardinality(followRequests' \ followRequests) = 1
                         /\ \A r \in followRequests' \ followRequests :
                                r.requesterId = u /\ r.targetId = t]_vars

\* A request has just been stored for a private target while an edge created
\* directly on a public target is stored as well.
C11_Witness ==
    /\ last.op = "requestToFollow"
    /\ last.at = "createRequest"
    /\ last.msg = "Follow request sent."
    /\ users[last.args[1]].is_private
    /\ \E r \in followRequests :
           r.requesterId = last.args[2] /\ r.targetId = last.args[1]
    /\ \E f \in followers : f.followingId # last.args[1]
    /\ accepted = {}

\* ------------------------------------------------------------------- C12
\* C12: when acceptFollowRequest for the pair (requester U, target T)
\* succeeds, the FollowRequest it looked up was stored, and afterwards the
\* Follower edge (follower U, following T) is stored, it is the one row added
\* to the followers, no FollowRequest of U for T is left, and no edge from T
\* to U has been created.
C12_AcceptMovesRequestToFollowers ==
    [][\A t \in UserIds, u \in UserIds :
          (/\ last'.op = "acceptFollowRequest"
           /\ last'.args = <<t, u>>
           /\ last'.err = "none") =>
              /\ last'.at = "transaction"
              /\ \E r \in followRequests : r.requesterId = u /\ r.targetId = t
              /\ followers' = followers \cup
                     {[followerId |-> u, followingId |-> t]}
              /\ Cardinality({ f \in followers' :
                     f.followerId = u /\ f.followingId = t }) = 1
              /\ ~\E r \in followRequests' :
                     r.requesterId = u /\ r.targetId = t
              /\ (u # t /\ [followerId |-> t, followingId |-> u] \notin followers)
                     => [followerId |-> t, followingId |-> u] \notin followers']_vars

\* An accept has just succeeded for a requester and another user as the
\* target: the requester follows the target, the target does not follow the
\* requester, and the request is gone.
C12_Witness ==
    /\ last.op = "acceptFollowRequest"
    /\ last.err = "none"
    /\ last.args[1] # last.args[2]
    /\ [followerId |-> last.args[2], followingId |-> last.args[1]] \in followers
    /\ [followerId |-> last.args[1], followingId |-> last.args[2]] \notin followers
    /\ ~\E r \in followRequests :
           r.requesterId = last.args[2] /\ r.targetId = last.args[1]

\* ------------------------------------------------------------------- C13
\* C13: acceptFollowRequest is atomic.  Whenever the transaction of an accept
\* runs, whatever other requests ran since its lookup, it either stores the
\* Follower edge and deletes the FollowRequest it looked up, both at once, or
\* fails and leaves the followers and the requests as they were (in
\* particular when the edge is stored already): no accept deletes the
\* request without storing the edge, or stores the edge and keeps the request.
C13_AcceptIsAtomic ==
    [][\A call \in BagToSet(inflight) :
          (/\ call.op = "acceptFollowRequest"
           /\ inflight' = inflight (-) SetToBag({call})) =>
              LET edge == [followerId |-> call.args[2],
                           followingId |-> call.args[1]]
              IN  \/ /\ last'.err = "none"
                     /\ edge \notin followers
                     /\ followers' = followers \cup {edge}
                     /\ \E r \in followRequests : r.id = call.row.id
                     /\ followRequests' =
                            { r \in followRequests : r.id # call.row.id }
                  \/ /\ last'.err # "none"
                     /\ followers' = followers
                     /\ followRequests' = followRequests]_vars

\* The transaction of an accept has just failed because another call has
\* deleted the request since the lookup: the requester does not follow the
\* target.
C13_Witness ==
    /\ last.op = "acceptFollowRequest"
    /\ last.at = "transaction"
    /\ last.cause = "RecordNotFound"
    /\ [followerId |-> last.args[2], followingId |-> last.args[1]] \notin followers

\* ------------------------------------------------------------------- C14
\* C14: the error kind requestToFollow reports to its caller is NotFound when
\* the target user is not stored, and BadRequest when the target is public
\* and the Follower edge is stored already or the target is private and the
\* FollowRequest is stored already; the followers and the requests are left
\* as they were in each case.
C14_RequestToFollowErrorKinds ==
    [][\A t \in UserIds, u \in UserIds :
          (last'.op = "requestToFollow" /\ last'.args = <<t, u>>) =>
              /\ (last'.at = "findUnique" /\ t \notin DOMAIN users) =>
                     /\ last'.err = "NotFound"
                     /\ UNCHANGED <<followers, followRequests>>
              /\ (/\ last'.at = "findFollow"
                  /\ [followerId |-> u, followingId |-> t] \in followers) =>
                     /\ last'.err = "BadRequest"
                     /\ UNCHANGED <<followers, followRequests>>
              /\ (/\ last'.at = "findRequest"
                  /\ \E r \in followRequests :
                         r.requesterId = u /\ r.targetId = t) =>
                     /\ last'.err = "BadRequest"
                     /\ UNCHANGED <<followers, followRequests>>]_vars

\* ------------------------------------------------------------------- C15
\* C15: acceptFollowRequest for a pair without a stored FollowRequest reports
\* the error kind BadRequest to its caller and leaves the followers and the
\* requests as they were.
C15_AcceptWithoutRequestBadRequest ==
    [][\A t \in UserIds, u \in UserIds :
          (/\ last'.op = "acceptFollowRequest"
           /\ last'.at = "findUnique"
           /\ last'.args = <<t, u>>
           /\ ~\E r \in followRequests : r.requesterId = u /\ r.targetId = t) =>
              /\ last'.err = "BadRequest"
              /\ UNCHANGED <<followers, followRequests>>]_vars

\* ------------------------------------------------------------------- C16
\* C16: cancelFollowRequest(requesterId, targetId) reports BadRequest and
\* changes nothing when its lookup finds no FollowRequest of the ordered
\* pair; otherwise it deletes the FollowRequest it found and no other row,
\* and creates no Follower edge.
C16_CancelDeletesOrBadRequest ==
    [][\A q \in UserIds, t \in UserIds :
          (last'.op = "cancelFollowRequest" /\ last'.args = <<q, t>>) =>
              LET found == { r \in followRequests :
                                 r.requesterId = q /\ r.targetId = t }
              IN  /\ followers' = followers
                  /\ last'.at = "findFirst" =>
                         /\ followRequests' = followRequests
                         /\ found = {} => last'.err = "BadRequest"
                         /\ found # {} => last'.err = "pending"
                  /\ (last'.at = "delete" /\ last'.err = "none") =>
                         /\ found # {}
                         /\ followRequests' = followRequests \ found
                  /\ (last'.at = "delete" /\ last'.err # "none") =>
                         followRequests' = followRequests]_vars

\* ------------------------------------------------------------------- C17
\* C17: unfollowUser is idempotent.  It never fails, whether or not the
\* Follower edge (follower userId, following targetId) is stored; after it
\* that edge is not stored; a second call right after it would leave the
\* followers as the first left them; and it changes no FollowRequest and no
\* edge of another pair.
C17_UnfollowIdempotent ==
    [][\A t \in UserIds, u \in UserIds :
          (last'.op = "unfollowUser" /\ last'.args = <<t, u>>) =>
              /\ last'.err = "none"
              /\ [followerId |-> u, followingId |-> t] \notin followers'
              /\ followers' = followers \ {[followerId |-> u, followingId |-> t]}
              /\ DeleteMany(followers', u, t) = followers'
              /\ followRequests' = followRequests]_vars

\* An unfollow has just returned; the edge of the pair is not stored, while
\* the edge of another pair and a follow request still are.
C17_Witness ==
    /\ last.op = "unfollowUser"
    /\ last.err = "none"
    /\ [followerId |-> last.args[2], followingId |-> last.args[1]] \notin followers
    /\ followers # {}
    /\ followRequests # {}

\* ------------------------------------------------------------------- C20
\* C20: for a stored target T that has been private at every moment, the
\* Follower edge (follower U, following T) is stored only if an
\* acceptFollowRequest for the pair (U, T) has succeeded and no unfollowUser
\* for the pair has run since; a requestToFollow alone never makes U a
\* follower of such a T, whatever registers, is edited, cancelled or deleted
\* meanwhile.
C20_PrivateTargetFollowedOnlyByAccept ==
    \A t \in StoredUsers, u \in UserIds :
        (users[t].is_private /\ ~everPublic[t]) =>
            /\ [followerId |-> u, followingId |-> t] \in followers
                   => [followerId |-> u, followingId |-> t] \in accepted
            /\ (last.op = "requestToFollow" /\ last.args = <<t, u>>) =>
                   /\ last.at \in {"findUnique", "findRequest", "createRequest"}
                   /\ last.err = "none" => last.msg = "Follow request sent."

\* A target that has always been private has a follower, by an accept, and
\* that follower has just asked to follow it again and has got as far as the
\* create.
C20_Witness ==
    \E t \in StoredUsers, u \in UserIds :
        /\ users[t].is_private
        /\ ~everPublic[t]
        /\ [followerId |-> u, followingId |-> t] \in followers
        /\ [followerId |-> u, followingId |-> t] \in accepted
        /\ last.op = "requestToFollow"
        /\ last.at = "createRequest"
        /\ last.args = <<t, u>>

\* ------------------------------------------------------------------- C22
\* C22: the upload of an editProfile is staged on the disk when the handler
\* starts and stays there while the call goes on to its upload; whenever the
\* call ends, by returning or by failing because the user is missing, the
\* remote upload fails or the database write fails (on the unique e-mail, or
\* because the user has been deleted meanwhile), the staged file is on the
\* disk no longer; and when it fails, the stored users are as they were.
C22_StagedFileRemoved ==
    [][(last'.op = "editProfile" /\ last'.args[4] # 0) =>
          /\ last'.at = "diskStorage" =>
                /\ last'.args[4] \in uploads'
                /\ last'.err = "pending"
                /\ users' = users
          /\ \A call \in Calls :
                (/\ call.op = "editProfile"
                 /\ call.at = last'.at
                 /\ call.args = last'.args
                 /\ CopiesIn(call, inflight') < CopiesIn(call, inflight)) =>
                    /\ call.at \in {"findUnique", "upload", "unlink"} =>
                          call.args[4] \in uploads
                    /\ (call.at = "findUnique" /\ call.args[1] \notin StoredUsers) =>
                          /\ last'.err = "InternalServerError"
                          /\ last'.cause = "NotFound"
                    /\ last'.err # "pending" =>
                          /\ call.args[4] \notin uploads'
                          /\ uploads' = uploads \ {call.args[4]}
                          /\ last'.err # "none" => users' = users
                          /\ last'.err \in {"none", "InternalServerError"}
                          /\ last'.err = "InternalServerError" =>
                                 last'.cause \in {"NotFound", "UploadError",
                                                  "UniqueConstraint",
                                                  "RecordNotFound"}]_vars

\* An editProfile has just failed at its lookup, the user being stored no
\* longer: the file it had staged is gone, while the file of another call is
\* still staged.
C22_Witness ==
    /\ last.op = "editProfile"
    /\ last.at = "findUnique"
    /\ last.cause = "NotFound"
    /\ last.args[1] \in DOMAIN users
    /\ last.args[4] # 0
    /\ last.args[4] \notin uploads
    /\ uploads # {}

\* ------------------------------------------------------------------- C24
\* C24: a successful editProfile always writes is_private.  The stored flag
\* becomes true when the request carries is_private as the boolean true or
\* the string 'true', and false in every other case, the flag left out
\* included (an edit without the flag makes a private account public); the
\* rows of the other users and the FollowRequest rows, those targeting the
\* edited user included, are left as they are.
C24_EditAlwaysWritesPrivacy ==
    [][\A u \in UserIds :
          (/\ last'.op = "editProfile"
           /\ last'.args[1] = u
           /\ last'.err = "none") =>
              /\ u \in DOMAIN users
              /\ users'[u].is_private =
                     (last'.args[3] \in {<<"boolean", "true">>, <<"string", "true">>})
              /\ last'.args[3] = <<"undefined", "">> => ~users'[u].is_private
              /\ \A v \in DOMAIN users : v # u => users'[v] = users[v]
              /\ followRequests' = followRequests
              /\ followers' = followers]_vars

====
